---------------------------- MODULE Spec2Model ----------------------------
(***************************************************************************)
(* Journalite: field-level encryption of journal entries                   *)
(* (src/src/services/fieldEncryption.js, src/frontend/src/services/        *)
(* firebase.js, src/src/services/journalService.js), the in-memory TTL     *)
(* cache (src/src/utils/cacheUtils.js) and the analytics service with its  *)
(* localStorage bundle cache (src/src/services/analyticsService.js).       *)
(* The heuristics of the Insights page (src/src/components/insights/       *)
(* Insights.js), the analytics calls that await a remote provider and the  *)
(* withCache calls that interleave are modelled step by step.              *)
(*                                                                         *)
(* JavaScript values are encoded as records with a tag t:                  *)
(*   undefined            [t |-> "undef"]                                  *)
(*   null                 [t |-> "null"]                                   *)
(*   a string x           [t |-> "str", s |-> x]                           *)
(*   {_encrypted,_value}  [t |-> "enc", _encrypted |-> TRUE, _value |-> c] *)
(*   true                 [t |-> "bool", b |-> TRUE]                       *)
(*   an array             [t |-> "list", l |-> <<...>>]                    *)
(* A function that can throw returns Throw(msg) or Ret(v).                 *)
(***************************************************************************)
EXTENDS Integers, Sequences, FiniteSets, TLC

(***************************************************************************)
(* Bounds                                                                  *)
(***************************************************************************)
\* most documents the journalEntries collection holds
MaxEntries == 2
\* the clock is read within MaxDelta ms after time 0 and after time maxAge
MaxDelta == 1
\* largest customMaxAge (ms) Cache.set is called with
MaxTtl == 1

(***************************************************************************)
(* JavaScript values                                                       *)
(***************************************************************************)
Undef == [t |-> "undef"]
Null == [t |-> "null"]
Str(x) == [t |-> "str", s |-> x]
True == [t |-> "bool", b |-> TRUE]
List(q) == [t |-> "list", l |-> q]

Throw(msg) == [threw |-> TRUE, error |-> msg]
Ret(v) == [threw |-> FALSE, val |-> v]

\* user identifiers; NoUid is a call made without the argument (undefined)
NoUid == "<undefined>"
UserIds == {"u1", "u2"}
UidArgs == UserIds \cup {NoUid, ""}

\* !userUid
FalsyUid(userUid) == userUid \in {NoUid, ""}

\* !v for a field value: undefined, null and '' are falsy, objects are truthy
Falsy(v) == v.t \in {"undef", "null"} \/ (v.t = "str" /\ v.s = "")

(***************************************************************************)
(* crypto-js, as fieldEncryption.js uses it                                *)
(*                                                                         *)
(* CryptoJS.AES.encrypt(value, key).toString() draws a random salt and     *)
(* returns the salted AES-CBC ciphertext of value under the passphrase     *)
(* key.  A ciphertext is the record [key, pt, salt].  Decrypting with the  *)
(* passphrase it was made with gives pt back.  AES-CBC has no integrity    *)
(* check and crypto-js removes the padding by reading the last byte only,  *)
(* so decrypting with any other passphrase gives pseudo-random bytes whose *)
(* rendering as UTF-8 either throws 'Malformed UTF-8 data', or is the      *)
(* empty string, or is a non-empty string; which of the three is decided   *)
(* by the ciphertext (its salt) and the passphrase.  The salt of a         *)
(* ciphertext is modelled by the outcome it leads to under another         *)
(* passphrase.                                                             *)
(***************************************************************************)
Malformed == "<Malformed UTF-8 data>"
\* 'siT' is what the ciphertext U2FsdGVkX18AAAAAAAABLHlRnMsddnzgyW8ec9AS/oQ=
\* of 'Hi' under the key of u1 decrypts to under the key of u2
Salts == {Malformed, "", "siT"}
\* the salts the documents of the collection are made with
StoreSalts == {Malformed, "siT"}

\* CryptoJS.SHA256(userUid + 'journalite_secret_salt').toString()
SHA256(x) == <<"sha256", x>>

\* a passphrase no user's key equals: a ciphertext damaged in the store
NoKey == <<"damaged">>

AESEncrypt(value, key, salt) == [key |-> key, pt |-> value, salt |-> salt]

\* CryptoJS.AES.decrypt(c, key).toString(CryptoJS.enc.Utf8)
AESDecryptUtf8(c, key) == IF c.key = key THEN c.pt ELSE c.salt

Enc(c) == [t |-> "enc", _encrypted |-> TRUE, _value |-> c]

DecryptionFailed == "[Decryption Failed]"

(***************************************************************************)
(* FieldEncryptionService                                                  *)
(***************************************************************************)
generateKey(userUid) ==
    IF FalsyUid(userUid)
    THEN Throw("User UID is required for encryption")
    ELSE Ret(SHA256(<<userUid, "journalite_secret_salt">>))

encryptField(value, userUid, salt) ==
    IF Falsy(value) \/ value.t # "str"
    THEN Ret(value)
    ELSE LET key == generateKey(userUid) IN
         IF key.threw
         THEN Throw("Failed to encrypt field")
         ELSE Ret(Enc(AESEncrypt(value.s, key.val, salt)))

\* decryptField that passes the uid itself, not the derived key, to AES.decrypt
decryptField_rawUid(encryptedField, userUid) ==
    IF Falsy(encryptedField) \/ encryptedField.t # "enc"
    THEN encryptedField
    ELSE IF FalsyUid(userUid)
    THEN Str(DecryptionFailed)
    ELSE LET decrypted == AESDecryptUtf8(encryptedField._value, userUid) IN
         IF decrypted = Malformed \/ decrypted = ""
         THEN Str(DecryptionFailed)
         ELSE Str(decrypted)

decryptField(encryptedField, userUid) ==
    IF Falsy(encryptedField) \/ encryptedField.t # "enc"
    THEN encryptedField
    ELSE LET key == generateKey(userUid) IN
         IF key.threw
         THEN Str(DecryptionFailed)
         ELSE LET decrypted == AESDecryptUtf8(encryptedField._value, key.val) IN
              IF decrypted = Malformed \/ decrypted = ""
              THEN Str(DecryptionFailed)
              ELSE Str(decrypted)


(***************************************************************************)
(* Journal entries.  An entry is a record of its properties; a property    *)
(* the object does not have is Undef.                                      *)
(***************************************************************************)
EncryptedFieldNames == List(<<"title", "content">>)

Entry(title, content, mood) ==
    [id |-> Undef, userId |-> Undef, title |-> title, content |-> content,
     mood |-> mood, images |-> Undef, createdAt |-> Undef,
     _hasEncryptedFields |-> Undef, _encryptedFields |-> Undef]

IsNull(entry) == entry = Null

\* encryptJournalEntry that builds the encrypted entry without the spread of entry
encryptJournalEntry_noSpread(entry, userUid, saltTitle, saltContent) ==
    IF IsNull(entry)
    THEN [success |-> FALSE, error |-> "Cannot read properties of null"]
    ELSE LET title == IF Falsy(entry.title) THEN Ret(entry.title)
                      ELSE encryptField(entry.title, userUid, saltTitle)
             content == IF Falsy(entry.content) THEN Ret(entry.content)
                        ELSE encryptField(entry.content, userUid, saltContent)
         IN IF title.threw THEN [success |-> FALSE, error |-> title.error]
            ELSE IF content.threw THEN [success |-> FALSE, error |-> content.error]
            ELSE [success |-> TRUE,
                  encryptedEntry |->
                      [Entry(title.val, content.val, Undef)
                          EXCEPT !._hasEncryptedFields = True,
                                 !._encryptedFields = EncryptedFieldNames]]

encryptJournalEntry(entry, userUid, saltTitle, saltContent) ==
    IF IsNull(entry)
    THEN [success |-> FALSE, error |-> "Cannot read properties of null"]
    ELSE LET title == IF Falsy(entry.title) THEN Ret(entry.title)
                      ELSE encryptField(entry.title, userUid, saltTitle)
             content == IF Falsy(entry.content) THEN Ret(entry.content)
                        ELSE encryptField(entry.content, userUid, saltContent)
         IN IF title.threw THEN [success |-> FALSE, error |-> title.error]
            ELSE IF content.threw THEN [success |-> FALSE, error |-> content.error]
            ELSE [success |-> TRUE,
                  encryptedEntry |->
                      [entry EXCEPT !.title = title.val,
                                    !.content = content.val,
                                    !._hasEncryptedFields = True,
                                    !._encryptedFields = EncryptedFieldNames]]

\* the caller's entry object once encryptJournalEntry has returned: the function
\* writes to the copy { ...entry } only
entryAfterEncrypt(entry, userUid) == entry

\* decryptJournalEntry that decrypts the title and leaves the content as stored
decryptJournalEntry_titleOnly(encryptedEntry, userUid) ==
    IF IsNull(encryptedEntry)
    THEN [success |-> FALSE, error |-> "Cannot read properties of null",
          decryptedEntry |-> encryptedEntry]
    ELSE IF Falsy(encryptedEntry._hasEncryptedFields)
    THEN [success |-> TRUE, decryptedEntry |-> encryptedEntry]
    ELSE [success |-> TRUE,
          decryptedEntry |->
              [encryptedEntry EXCEPT
                  !.title = IF encryptedEntry.title.t = "enc"
                            THEN decryptField(encryptedEntry.title, userUid)
                            ELSE encryptedEntry.title,
                  !._hasEncryptedFields = Undef,
                  !._encryptedFields = Undef]]

decryptJournalEntry(encryptedEntry, userUid) ==
    IF IsNull(encryptedEntry)
    THEN [success |-> FALSE, error |-> "Cannot read properties of null",
          decryptedEntry |-> encryptedEntry]
    ELSE IF Falsy(encryptedEntry._hasEncryptedFields)
    THEN [success |-> TRUE, decryptedEntry |-> encryptedEntry]
    ELSE [success |-> TRUE,
          decryptedEntry |->
              [encryptedEntry EXCEPT
                  !.title = IF encryptedEntry.title.t = "enc"
                            THEN decryptField(encryptedEntry.title, userUid)
                            ELSE encryptedEntry.title,
                  !.content = IF encryptedEntry.content.t = "enc"
                              THEN decryptField(encryptedEntry.content, userUid)
                              ELSE encryptedEntry.content,
                  !._hasEncryptedFields = Undef,
                  !._encryptedFields = Undef]]

\* the forEach callback leaving out an entry whose title came back as the sentinel
decryptStep_dropsFailed(acc, entry, index, userUid) ==
    IF acc.threw THEN acc
    ELSE LET result == decryptJournalEntry(entry, userUid) IN
         IF IsNull(entry)
         THEN Throw("Cannot read properties of null (reading 'id')")
         ELSE IF result.decryptedEntry.title = Str(DecryptionFailed)
         THEN Ret([decryptedEntries |-> acc.val.decryptedEntries,
                   errors |-> Append(acc.val.errors,
                                     [index |-> index, entryId |-> entry.id,
                                      error |-> "decryption failed"])])
         ELSE Ret([decryptedEntries |-> Append(acc.val.decryptedEntries, result.decryptedEntry),
                   errors |-> acc.val.errors])

\* the body of the forEach callback for the entry at 0-based index, applied
\* to the result acc = Ret([decryptedEntries, errors]) of the entries before it
decryptStep(acc, entry, index, userUid) ==
    IF acc.threw THEN acc
    ELSE LET result == decryptJournalEntry(entry, userUid) IN
         IF result.success
         THEN Ret([decryptedEntries |-> Append(acc.val.decryptedEntries, result.decryptedEntry),
                   errors |-> acc.val.errors])
         ELSE IF IsNull(entry)
         THEN Throw("Cannot read properties of null (reading 'id')")
         ELSE Ret([decryptedEntries |-> Append(acc.val.decryptedEntries, entry),
                   errors |-> Append(acc.val.errors,
                                     [index |-> index, entryId |-> entry.id,
                                      error |-> result.error])])

RECURSIVE decryptLoop(_, _, _)
decryptLoop(encryptedEntries, n, userUid) ==
    IF n = 0
    THEN Ret([decryptedEntries |-> <<>>, errors |-> <<>>])
    ELSE decryptStep(decryptLoop(encryptedEntries, n - 1, userUid),
                     encryptedEntries[n], n - 1, userUid)

decryptJournalEntries(encryptedEntries, userUid) ==
    LET r == decryptLoop(encryptedEntries, Len(encryptedEntries), userUid) IN
    IF r.threw THEN r
    ELSE Ret([success |-> Len(r.val.errors) = 0,
              decryptedEntries |-> r.val.decryptedEntries,
              errors |-> r.val.errors])

(***************************************************************************)
(* State                                                                   *)
(***************************************************************************)
VARIABLES
    call,       \* the last call of a FieldEncryptionService function
    db,         \* the journalEntries collection, in order of creation
    reply,      \* what the last journal service operation returned or threw
    cache,      \* Cache.cache of one Cache instance: key -> item
    now,        \* Date.now()
    got,        \* the last Cache call and what it returned
    mediumCache,    \* Cache.cache of mediumCache
    longCache,      \* Cache.cache of longCache
    localStorage,   \* window.localStorage: key -> the JSON text stored, parsed
    isAIAvailable,  \* AnalyticsService.isAIAvailable
    pythonAvailable, \* AnalyticsService.pythonAvailable
    entriesData,    \* the entries the Insights page has loaded for its analyses
    pending,        \* the analytics calls under way, each with the requests it awaits
    calls           \* the withCache calls on shortCache, each with the step it has reached

\* the variables of the two other Cache instances
instances == <<mediumCache, longCache>>

\* the variables of the analytics service
analytics == <<localStorage, isAIAvailable, pythonAvailable>>

\* the variables of the Insights page and of the calls that are under way
running == <<entriesData, pending, calls>>

vars == <<call, db, reply, cache, now, got, instances, analytics, running>>

(***************************************************************************)
(* Arguments the calls are made with                                       *)
(***************************************************************************)
FieldArgs == {Undef, Str(""), Str("Hi"), Str("Yo")}

EntryData ==
    {Entry(Str("Hi"), Str("Yo"), Str("happy")),
     Entry(Str(""), Str("Yo"), Str("sad")),
     Entry(Undef, Undef, Undef)}

\* documents as other writers leave them in the collection: entries written
\* before encryption was introduced (no marker), entries whose ciphertext is
\* damaged, entries encrypted under the key of a user who is not the reader
StoredData ==
    {Entry(Str("Hi"), Str("Yo"), Str("happy")),
     [Entry(Enc(AESEncrypt("Hi", NoKey, Malformed)), Str("Yo"), Str("sad"))
         EXCEPT !._hasEncryptedFields = True,
                !._encryptedFields = EncryptedFieldNames]}
    \cup {encryptJournalEntry(Entry(Str("Hi"), Str("Yo"), Str("happy")),
                              "u1", salt, Malformed).encryptedEntry : salt \in StoreSalts}

StoredFields == {e.title : e \in StoredData} \cup {e.content : e \in StoredData}

NoCall == [op |-> "none"]

\* the arguments of a call, as a later call that consumes its result records them
Args(c) == [op |-> c.op, arg |-> c.arg, userUid |-> c.userUid]

(***************************************************************************)
(* Calls of the FieldEncryptionService functions                           *)
(***************************************************************************)
EncryptFieldCall(value, userUid, salt) ==
    /\ call' = [op |-> "encryptField", arg |-> value, userUid |-> userUid,
                out |-> encryptField(value, userUid, salt), prev |-> NoCall]
    /\ UNCHANGED <<db, reply, cache, now, got, instances, analytics, running>>

\* decryptField on what the encryptField call before it returned
DecryptFieldOfCall(userUid) ==
    /\ call.op = "encryptField"
    /\ ~call.out.threw
    /\ call' = [op |-> "decryptField", arg |-> call.out.val, userUid |-> userUid,
                out |-> decryptField(call.out.val, userUid), prev |-> Args(call)]
    /\ UNCHANGED <<db, reply, cache, now, got, instances, analytics, running>>

\* decryptField on a field read from the store
DecryptFieldStored(encryptedField, userUid) ==
    /\ call' = [op |-> "decryptField", arg |-> encryptedField, userUid |-> userUid,
                out |-> decryptField(encryptedField, userUid), prev |-> NoCall]
    /\ UNCHANGED <<db, reply, cache, now, got, instances, analytics, running>>

EncryptJournalEntryCall(entry, userUid, saltTitle, saltContent) ==
    /\ call' = [op |-> "encryptJournalEntry", arg |-> entry, userUid |-> userUid,
                out |-> encryptJournalEntry(entry, userUid, saltTitle, saltContent),
                argAfter |-> entryAfterEncrypt(entry, userUid),
                prev |-> NoCall]
    /\ UNCHANGED <<db, reply, cache, now, got, instances, analytics, running>>

\* decryptJournalEntry on the encryptedEntry of the encryptJournalEntry call before it
DecryptJournalEntryOfCall(userUid) ==
    /\ call.op = "encryptJournalEntry"
    /\ call.out.success
    /\ call' = [op |-> "decryptJournalEntry", arg |-> call.out.encryptedEntry,
                userUid |-> userUid,
                out |-> decryptJournalEntry(call.out.encryptedEntry, userUid),
                prev |-> Args(call)]
    /\ UNCHANGED <<db, reply, cache, now, got, instances, analytics, running>>

\* decryptJournalEntry on an entry read from the store
DecryptJournalEntryStored(encryptedEntry, userUid) ==
    /\ call' = [op |-> "decryptJournalEntry", arg |-> encryptedEntry,
                userUid |-> userUid,
                out |-> decryptJournalEntry(encryptedEntry, userUid),
                prev |-> NoCall]
    /\ UNCHANGED <<db, reply, cache, now, got, instances, analytics, running>>

NextCodec ==
    \/ \E value \in FieldArgs \cup StoredFields, userUid \in UidArgs, salt \in Salts :
          EncryptFieldCall(value, userUid, salt)
    \/ \E userUid \in UidArgs : DecryptFieldOfCall(userUid)
    \/ \E encryptedField \in StoredFields, userUid \in UidArgs :
          DecryptFieldStored(encryptedField, userUid)
    \/ \E entry \in EntryData \cup {Null}, userUid \in UidArgs,
          saltTitle \in Salts, saltContent \in Salts :
          EncryptJournalEntryCall(entry, userUid, saltTitle, saltContent)
    \/ \E userUid \in UidArgs : DecryptJournalEntryOfCall(userUid)
    \/ \E encryptedEntry \in StoredData, userUid \in UidArgs :
          DecryptJournalEntryStored(encryptedEntry, userUid)

(***************************************************************************)
(* The journal services over the journalEntries collection                 *)
(***************************************************************************)
Reverse(q) == [i \in 1..Len(q) |-> q[Len(q) + 1 - i]]

\* JournalService.createEntry: the document addDoc writes, with the id the
\* collection gives it; serverTimestamp() is the number of the write
newDoc(entryData, userId, n) ==
    [entryData EXCEPT !.id = [t |-> "id", n |-> n],
                      !.userId = Str(userId),
                      !.createdAt = [t |-> "ts", n |-> n],
                      !.images = IF Falsy(entryData.images) THEN List(<<>>)
                                 ELSE entryData.images]

\* the id addDoc gives a new document: one no document of the collection has
freshId(docs) ==
    CHOOSE n \in 1..(Len(docs) + 1) :
        /\ \A i \in 1..Len(docs) : docs[i].id.n # n
        /\ \A m \in 1..(n - 1) : \E i \in 1..Len(docs) : docs[i].id.n = m

\* JournalService.createEntry(entryData, userId); added: addDoc resolved
baseCreateEntry(docs, entryData, userId, added) ==
    IF added /\ userId # NoUid
    THEN [db |-> Append(docs, newDoc(entryData, userId, freshId(docs))),
          result |-> [success |-> TRUE,
                      data |-> newDoc(entryData, userId, freshId(docs))]]
    ELSE [db |-> docs, result |-> [success |-> FALSE, error |-> "addDoc failed"]]

\* JournalService.getUserEntries(userId); fetched: getDocs resolved
baseGetUserEntries(docs, userId, fetched) ==
    IF fetched
    THEN [success |-> TRUE,
          data |-> Reverse(SelectSeq(docs, LAMBDA d : d.userId = Str(userId)))]
    ELSE [success |-> FALSE, error |-> "getDocs failed"]

\* EncryptedJournalService.createEntry(entryData, userId)
CreateEntry(entryData, userId, saltTitle, saltContent, added) ==
    /\ Len(db) < MaxEntries
    /\ LET encryptionResult ==
               encryptJournalEntry(entryData, userId, saltTitle, saltContent)
       IN IF ~encryptionResult.success
          THEN /\ reply' = [op |-> "createEntry", userId |-> userId,
                            out |-> Throw("Encryption failed")]
               /\ db' = db
          ELSE LET r == baseCreateEntry(db, encryptionResult.encryptedEntry,
                                        userId, added)
               IN /\ reply' = [op |-> "createEntry", userId |-> userId,
                               out |-> Ret(r.result)]
                  /\ db' = r.db
    /\ UNCHANGED <<call, cache, now, got, instances, analytics, running>>

\* JournalService.createEntry called by a writer that does not encrypt
BaseCreateEntry(entryData, userId, added) ==
    /\ Len(db) < MaxEntries
    /\ LET r == baseCreateEntry(db, entryData, userId, added)
       IN /\ reply' = [op |-> "baseCreateEntry", userId |-> userId,
                       out |-> Ret(r.result)]
          /\ db' = r.db
    /\ UNCHANGED <<call, cache, now, got, instances, analytics, running>>

\* EncryptedJournalService.getUserEntries(userId)
GetUserEntries(userId, fetched) ==
    /\ LET result == baseGetUserEntries(db, userId, fetched) IN
       IF ~result.success
       THEN reply' = [op |-> "getUserEntries", userId |-> userId,
                      batch |-> <<>>, decrypted |-> FALSE, out |-> Ret(result)]
       ELSE LET decryptionResult == decryptJournalEntries(result.data, userId) IN
            reply' = [op |-> "getUserEntries", userId |-> userId,
                      batch |-> result.data, decrypted |-> TRUE,
                      decryptionResult |-> decryptionResult,
                      out |-> IF decryptionResult.threw THEN decryptionResult
                              ELSE Ret([success |-> TRUE,
                                        data |-> decryptionResult.val.decryptedEntries,
                                        decryptionErrors |-> decryptionResult.val.errors])]
    /\ UNCHANGED <<call, db, cache, now, got, instances, analytics, running>>

\* fieldEncryptionService.decryptJournalEntries on the documents of the collection
DecryptJournalEntriesCall(userUid) ==
    /\ reply' = [op |-> "decryptJournalEntries", userId |-> userUid,
                 batch |-> db, decrypted |-> TRUE,
                 decryptionResult |-> decryptJournalEntries(db, userUid),
                 out |-> decryptJournalEntries(db, userUid)]
    /\ UNCHANGED <<call, db, cache, now, got, instances, analytics, running>>

NextStore ==
    \/ \E entryData \in EntryData, userId \in UidArgs,
          saltTitle \in StoreSalts, saltContent \in StoreSalts, added \in BOOLEAN :
          CreateEntry(entryData, userId, saltTitle, saltContent, added)
    \/ \E entryData \in StoredData, userId \in UserIds, added \in BOOLEAN :
          BaseCreateEntry(entryData, userId, added)
    \/ \E userId \in UserIds, fetched \in BOOLEAN : GetUserEntries(userId, fetched)
    \/ \E userUid \in UidArgs : DecryptJournalEntriesCall(userUid)

(***************************************************************************)
(* JournalService.updateEntry / deleteEntry and the analytics record that  *)
(* PythonAnalyticsService.getCachedAnalytics keeps in localStorage         *)
(***************************************************************************)
\* JournalService.getEntry(entryId, userId)
getEntry(docs, entryId, userId) ==
    LET found == {i \in 1..Len(docs) : docs[i].id.n = entryId} IN
    IF found = {}
    THEN [success |-> FALSE, error |-> "Journal entry not found"]
    ELSE LET entry == docs[CHOOSE i \in found : TRUE] IN
         IF entry.userId # Str(userId)
         THEN [success |-> FALSE, error |-> "Unauthorized access to journal entry"]
         ELSE [success |-> TRUE, data |-> entry]

\* { ...target, ...source }
Spread(target, source) ==
    [f \in DOMAIN target \cup DOMAIN source |->
        IF f \in DOMAIN source THEN source[f] ELSE target[f]]

\* what entries are updated with
UpdateData == {[mood |-> Str("sad")]}

\* the ids entries are asked for by
EntryIds == 1..(MaxEntries + 1)

\* JournalService.updateEntry(entryId, updateData, userId); updated: updateDoc
\* resolved.  serverTimestamp() is the clock.
UpdateEntry(entryId, updateData, userId, updated) ==
    /\ LET existingEntry == getEntry(db, entryId, userId)
           updatedEntry == Spread(updateData, [updatedAt |-> [t |-> "ts", n |-> now]])
       IN IF ~existingEntry.success
          THEN /\ reply' = [op |-> "updateEntry", userId |-> userId,
                            out |-> Ret([success |-> FALSE,
                                         error |-> "Journal entry not found or unauthorized"])]
               /\ db' = db
          ELSE IF ~updated
          THEN /\ reply' = [op |-> "updateEntry", userId |-> userId,
                            out |-> Ret([success |-> FALSE, error |-> "updateDoc failed"])]
               /\ db' = db
          ELSE /\ reply' = [op |-> "updateEntry", userId |-> userId,
                            out |-> Ret([success |-> TRUE,
                                         data |-> Spread([id |-> entryId], updatedEntry)])]
               /\ db' = [i \in 1..Len(db) |->
                            IF db[i].id.n = entryId THEN Spread(db[i], updatedEntry)
                            ELSE db[i]]
    /\ UNCHANGED <<call, cache, now, got, instances, analytics, running>>

\* JournalService.deleteEntry(entryId, userId); deleted: deleteDoc (and the
\* deletion of the entry's images before it) resolved
DeleteEntry(entryId, userId, deleted) ==
    /\ LET existingEntry == getEntry(db, entryId, userId)
       IN IF ~existingEntry.success
          THEN /\ reply' = [op |-> "deleteEntry", userId |-> userId,
                            out |-> Ret([success |-> FALSE,
                                         error |-> "Journal entry not found or unauthorized"])]
               /\ db' = db
          ELSE IF ~deleted
          THEN /\ reply' = [op |-> "deleteEntry", userId |-> userId,
                            out |-> Ret([success |-> FALSE, error |-> "deleteDoc failed"])]
               /\ db' = db
          ELSE /\ reply' = [op |-> "deleteEntry", userId |-> userId,
                            out |-> Ret([success |-> TRUE,
                                         message |-> "Journal entry deleted successfully"])]
               /\ db' = SelectSeq(db, LAMBDA d : d.id.n # entryId)
    /\ UNCHANGED <<call, cache, now, got, instances, analytics, running>>

\* the entries of userId the Insights component loads and passes on
entriesOf(docs, userId) == baseGetUserEntries(docs, userId, TRUE).data

\* `analytics_${userId}`
analyticsKey(userId) == <<"analytics", userId>>

\* PythonAnalyticsService.generateInsights(userId, entries); answered: the
\* request to /generate-insights succeeded.  What the backend computes is
\* known by the entries it computed it from.
generateInsights(userId, entries, answered) ==
    IF answered
    THEN [success |-> TRUE, insights |-> [computedFrom |-> entries]]
    ELSE [success |-> FALSE, error |-> "Request failed"]

\* 30 * 60 * 1000
analyticsMaxAge == 30 * 60 * 1000

\* PythonAnalyticsService.getCachedAnalytics(userId, entries, forceRefresh)
GetCachedAnalytics(userId, forceRefresh, answered) ==
    /\ LET key == analyticsKey(userId)
           entries == entriesOf(db, userId)
           result == generateInsights(userId, entries, answered)
       IN IF /\ ~forceRefresh
             /\ key \in DOMAIN localStorage
             /\ now - localStorage[key].timestamp < analyticsMaxAge
          THEN /\ reply' = [op |-> "getCachedAnalytics", userId |-> userId,
                            out |-> Ret([success |-> TRUE,
                                         insights |-> localStorage[key].data,
                                         fromCache |-> TRUE])]
               /\ localStorage' = localStorage
          ELSE /\ reply' = [op |-> "getCachedAnalytics", userId |-> userId,
                            out |-> Ret(result)]
               /\ localStorage' =
                     IF result.success
                     THEN [k \in DOMAIN localStorage \cup {key} |->
                              IF k = key
                              THEN [data |-> result.insights, timestamp |-> now]
                              ELSE localStorage[k]]
                     ELSE localStorage
    /\ UNCHANGED <<call, db, cache, now, got, instances, isAIAvailable, pythonAvailable, running>>

\* what is written to the collection while analytics are read
WrittenData == {Entry(Str("Hi"), Str("Yo"), Str("happy"))}

NextStale ==
    \/ \E entryData \in WrittenData, userId \in UserIds, added \in BOOLEAN :
          BaseCreateEntry(entryData, userId, added)
    \/ \E entryId \in EntryIds, updateData \in UpdateData, userId \in UserIds,
          updated \in BOOLEAN : UpdateEntry(entryId, updateData, userId, updated)
    \/ \E entryId \in EntryIds, userId \in UserIds, deleted \in BOOLEAN :
          DeleteEntry(entryId, userId, deleted)
    \/ \E userId \in UserIds, forceRefresh \in BOOLEAN, answered \in BOOLEAN :
          GetCachedAnalytics(userId, forceRefresh, answered)

(***************************************************************************)
(* Cache (cacheUtils.js): one instance, shortCache = new Cache(30000)      *)
(***************************************************************************)
maxAge == 30000

Num(n) == [t |-> "num", n |-> n]

\* cache keys are strings, modelled as the sequence of their parts
CacheKeys == {<<"u1", "mood">>, <<"u2", "mood">>}
CacheValues == {Str("a"), Str("b")}
CustomMaxAges == {Undef} \cup {Num(n) : n \in 0..MaxTtl}

\* the instants at which the model reads Date.now()
Times == (0..MaxDelta) \cup (maxAge..(maxAge + MaxDelta))

\* this.cache = {}
NoItems == [key \in {} |-> Undef]

\* customMaxAge || this.maxAge
orMaxAge(customMaxAge) ==
    IF customMaxAge.t = "undef" \/ customMaxAge.n = 0 THEN maxAge ELSE customMaxAge.n

\* the item Cache.set stores.  value and expiry are the fields of the code;
\* storedAt and ttl record the call: the clock at the call and the time to
\* live it asked for (the instance's maxAge when it passed none)
newItem(value, customMaxAge, t) ==
    [value |-> value,
     expiry |-> t + orMaxAge(customMaxAge),
     storedAt |-> t,
     ttl |-> IF customMaxAge.t = "undef" THEN maxAge ELSE customMaxAge.n]

\* Date.now() > item.expiry
expired(item, t) == t > item.expiry

Without(items, keys) == [key \in DOMAIN items \ keys |-> items[key]]

Set(key, value, customMaxAge) ==
    /\ cache' = [k \in DOMAIN cache \cup {key} |->
                    IF k = key THEN newItem(value, customMaxAge, now) ELSE cache[k]]
    /\ got' = [op |-> "set", key |-> key, at |-> now, item |-> Undef, ret |-> Undef]
    /\ UNCHANGED <<call, db, reply, now, instances, analytics, running>>

Get(key) ==
    /\ IF key \notin DOMAIN cache
       THEN /\ got' = [op |-> "get", key |-> key, at |-> now, item |-> Undef,
                       ret |-> Null]
            /\ cache' = cache
       ELSE IF expired(cache[key], now)
       THEN /\ got' = [op |-> "get", key |-> key, at |-> now, item |-> cache[key],
                       ret |-> Null]
            /\ cache' = Without(cache, {key})
       ELSE /\ got' = [op |-> "get", key |-> key, at |-> now, item |-> cache[key],
                       ret |-> cache[key].value]
            /\ cache' = cache
    /\ UNCHANGED <<call, db, reply, now, instances, analytics, running>>

Remove(key) ==
    /\ cache' = Without(cache, {key})
    /\ got' = [op |-> "remove", key |-> key, at |-> now, item |-> Undef, ret |-> Undef]
    /\ UNCHANGED <<call, db, reply, now, instances, analytics, running>>

Clear ==
    /\ cache' = NoItems
    /\ got' = [op |-> "clear", key |-> <<>>, at |-> now, item |-> Undef, ret |-> Undef]
    /\ UNCHANGED <<call, db, reply, now, instances, analytics, running>>

\* key.startsWith(prefix), on keys and prefixes given by their parts
startsWith(key, prefix) ==
    /\ Len(prefix) <= Len(key)
    /\ SubSeq(key, 1, Len(prefix)) = prefix

\* the prefixes clearByPrefix and invalidateCache are called with: the empty
\* string, a user's prefix, a whole key, a prefix no key has
Prefixes == {<<>>, <<"u1">>, <<"u2">>, <<"u1", "mood">>, <<"u3">>}

\* clearByPrefix that deletes the key equal to the prefix only
clearByPrefix_wholeKey(items, prefix) == Without(items, {prefix})

\* clearByPrefix that stops after the first key it deletes
clearByPrefix_firstMatch(items, prefix) ==
    LET matching == {key \in DOMAIN items : startsWith(key, prefix)}
    IN  IF matching = {} THEN items
        ELSE Without(items, {CHOOSE key \in matching : TRUE})

\* Object.keys(this.cache).forEach(key => { if (key.startsWith(prefix)) delete ... })
clearByPrefix(items, prefix) ==
    Without(items, {key \in DOMAIN items : startsWith(key, prefix)})

\* again: the call before this one was the same clearByPrefix(prefix);
\* removed: the keys this call and the same calls just before it deleted
ClearByPrefix(prefix) ==
    /\ cache' = clearByPrefix(cache, prefix)
    /\ LET again == got.op = "clearByPrefix" /\ got.key = prefix
       IN  got' = [op |-> "clearByPrefix", key |-> prefix, at |-> now, item |-> Undef,
                   ret |-> Undef, again |-> again,
                   removed |-> (IF again THEN got.removed ELSE {})
                                   \cup (DOMAIN cache \ DOMAIN cache')]
    /\ UNCHANGED <<call, db, reply, now, instances, analytics, running>>

\* mediumCache = new Cache(5 * 60000), longCache = new Cache(30 * 60000)
mediumMaxAge == 5 * 60000
longMaxAge == 30 * 60000

\* the item Cache.set stores in an instance whose maxAge is instanceMaxAge
itemOf(instanceMaxAge, value, customMaxAge, t) ==
    [value |-> value,
     expiry |-> t + (IF customMaxAge.t = "undef" \/ customMaxAge.n = 0
                     THEN instanceMaxAge ELSE customMaxAge.n),
     storedAt |-> t,
     ttl |-> IF customMaxAge.t = "undef" THEN instanceMaxAge ELSE customMaxAge.n]

\* mediumCache.set(key, value, customMaxAge)
MediumSet(key, value, customMaxAge) ==
    /\ mediumCache' = [k \in DOMAIN mediumCache \cup {key} |->
                          IF k = key THEN itemOf(mediumMaxAge, value, customMaxAge, now)
                          ELSE mediumCache[k]]
    /\ got' = [op |-> "mediumSet", key |-> key, at |-> now, item |-> Undef, ret |-> Undef]
    /\ UNCHANGED <<call, db, reply, cache, now, longCache, analytics, running>>

\* longCache.set(key, value, customMaxAge)
LongSet(key, value, customMaxAge) ==
    /\ longCache' = [k \in DOMAIN longCache \cup {key} |->
                        IF k = key THEN itemOf(longMaxAge, value, customMaxAge, now)
                        ELSE longCache[k]]
    /\ got' = [op |-> "longSet", key |-> key, at |-> now, item |-> Undef, ret |-> Undef]
    /\ UNCHANGED <<call, db, reply, cache, now, mediumCache, analytics, running>>

\* invalidateCache(prefix): clearByPrefix on each of the three instances
InvalidateCache(prefix) ==
    /\ cache' = clearByPrefix(cache, prefix)
    /\ mediumCache' = clearByPrefix(mediumCache, prefix)
    /\ longCache' = clearByPrefix(longCache, prefix)
    /\ got' = [op |-> "invalidateCache", key |-> prefix, at |-> now, item |-> Undef,
               ret |-> Undef]
    /\ UNCHANGED <<call, db, reply, now, analytics, running>>

\* what fn() does when withCache awaits it: it resolves with a value, which
\* may be a falsy one, or it rejects
FnOutcomes == {Ret(value) : value \in CacheValues \cup {Str("")}} \cup {Throw("fn failed")}

\* Cache.get(key) on items at time t: what it returns and the items it leaves
cacheGet(items, key, t) ==
    IF key \notin DOMAIN items THEN [ret |-> Null, items |-> items]
    ELSE IF expired(items[key], t) THEN [ret |-> Null, items |-> Without(items, {key})]
    ELSE [ret |-> items[key].value, items |-> items]

\* a Cache.set that, for a key already present, replaces the value and keeps the
\* rest of the record
cacheSet_valueOnly(items, key, value, t) ==
    [k \in DOMAIN items \cup {key} |->
        IF k # key THEN items[k]
        ELSE IF key \in DOMAIN items THEN [items[key] EXCEPT !.value = value]
        ELSE newItem(value, Undef, t)]

\* Cache.set(key, value) on items at time t
cacheSet(items, key, value, t) ==
    [k \in DOMAIN items \cup {key} |-> IF k = key THEN newItem(value, Undef, t) ELSE items[k]]

\* withCache(fn, cacheKey, shortCache, forceRefresh).  ran: fn was called
WithCache(cacheKey, forceRefresh, outcome) ==
    LET g == IF forceRefresh THEN [ret |-> Undef, items |-> cache]
             ELSE cacheGet(cache, cacheKey, now)
        item == IF cacheKey \in DOMAIN cache THEN cache[cacheKey] ELSE Undef
        done(ret, ran) == [op |-> "withCache", key |-> cacheKey, at |-> now,
                            item |-> item, ret |-> ret,
                            forceRefresh |-> forceRefresh, ran |-> ran]
    IN  /\ IF ~forceRefresh /\ ~Falsy(g.ret)
           THEN /\ cache' = g.items
                /\ got' = done(Ret(g.ret), FALSE)
           ELSE IF outcome.threw
           THEN /\ cache' = g.items
                /\ got' = done(outcome, TRUE)
           ELSE /\ cache' = cacheSet(g.items, cacheKey, outcome.val, now)
                /\ got' = done(outcome, TRUE)
        /\ UNCHANGED <<call, db, reply, now, instances, analytics, running>>

\* time passes
Tick(t) ==
    /\ t > now
    /\ now' = t
    /\ UNCHANGED <<call, db, reply, cache, got, instances, analytics, running>>

NextCache ==
    \/ \E key \in CacheKeys, value \in CacheValues, customMaxAge \in CustomMaxAges :
          Set(key, value, customMaxAge)
    \/ \E key \in CacheKeys : Get(key)
    \/ \E key \in CacheKeys : Remove(key)
    \/ Clear
    \/ \E prefix \in Prefixes : ClearByPrefix(prefix)
    \/ \E t \in Times : Tick(t)

\* withCache on shortCache
NextWithCache ==
    \/ \E cacheKey \in CacheKeys, forceRefresh \in BOOLEAN, outcome \in FnOutcomes :
          WithCache(cacheKey, forceRefresh, outcome)
    \/ \E t \in Times : Tick(t)

\* the three instances: shortCache, mediumCache, longCache
NextCaches ==
    \/ \E key \in CacheKeys, customMaxAge \in CustomMaxAges :
          Set(key, Str("a"), customMaxAge)
    \/ \E key \in CacheKeys, customMaxAge \in CustomMaxAges :
          MediumSet(key, Str("a"), customMaxAge)
    \/ \E key \in CacheKeys, customMaxAge \in CustomMaxAges :
          LongSet(key, Str("b"), customMaxAge)
    \/ \E prefix \in Prefixes : ClearByPrefix(prefix)
    \/ \E prefix \in Prefixes : InvalidateCache(prefix)

(***************************************************************************)
(* AnalyticsService (analyticsService.js)                                  *)
(*                                                                         *)
(* An entry given to the analytics is the record                           *)
(*   [id, text, mood, createdAt |-> [day, hour]]                           *)
(* text is `${entry.title || ''} ${entry.content || ''}` as the sequence   *)
(* of its lower-case words (title and content are only ever read joined),  *)
(* mood is the mood label or "" when the entry has none, createdAt is what *)
(* entry.createdAt.toDate() gives, as a day number and the hour of the     *)
(* day.  In results an array is List(<<...>>), an object a record,         *)
(* undefined is Undef and null is Null.                                    *)
(***************************************************************************)
AEntry(id, text, mood, day, hour) ==
    [id |-> id, text |-> text, mood |-> mood, createdAt |-> [day |-> day, hour |-> hour]]

\* the entry lists the analytics are asked for: absent, none, one entry, two
\* entries of one day, three entries given out of date order, one without a mood
EntryLists ==
    {Undef,
     List(<<>>),
     List(<<AEntry(1, <<"the", "happy", "day">>, "happy", 1, 9)>>),
     List(<<AEntry(1, <<"the", "happy", "day">>, "happy", 1, 9),
            AEntry(2, <<"sad", "day", "hi">>, "sad", 1, 20)>>),
     List(<<AEntry(3, <<>>, "", 2, 13),
            AEntry(2, <<"sad", "day", "hi">>, "sad", 1, 20),
            AEntry(1, <<"the", "happy", "day">>, "happy", 1, 9)>>)}

\* !entries || entries.length === 0
NoEntries(entries) == entries = Undef \/ entries.l = <<>>

\* the elements of q in the order of their first occurrence
RECURSIVE Dedupe(_)
Dedupe(q) ==
    IF q = <<>> THEN <<>>
    ELSE LET r == Dedupe(SubSeq(q, 1, Len(q) - 1))
             x == q[Len(q)]
         IN  IF \E i \in 1..Len(r) : r[i] = x THEN r ELSE Append(r, x)

Count(q, x) == Cardinality({i \in 1..Len(q) : q[i] = x})

\* Array.prototype.sort((a, b) => b[f] - a[f]): descending by field f, stable
RECURSIVE SortDescBy(_, _)
SortDescBy(q, f) ==
    IF q = <<>> THEN <<>>
    ELSE LET r == SortDescBy(SubSeq(q, 1, Len(q) - 1), f)
             x == q[Len(q)]
             k == Cardinality({i \in 1..Len(r) : r[i][f] >= x[f]})
         IN  SubSeq(r, 1, k) \o <<x>> \o SubSeq(r, k + 1, Len(r))

\* Array.prototype.sort((a, b) => a[f] - b[f]): ascending by field f, stable
RECURSIVE SortAscBy(_, _)
SortAscBy(q, f) ==
    IF q = <<>> THEN <<>>
    ELSE LET r == SortAscBy(SubSeq(q, 1, Len(q) - 1), f)
             x == q[Len(q)]
             k == Cardinality({i \in 1..Len(r) : r[i][f] <= x[f]})
         IN  SubSeq(r, 1, k) \o <<x>> \o SubSeq(r, k + 1, Len(r))

\* Math.round((part / total) * 100), for 0 <= part and 0 < total
RoundPct(part, total) == (200 * part + total) \div (2 * total)

\* entry.mood || 'neutral'
moodOrNeutral(entry) == IF entry.mood = "" THEN "neutral" ELSE entry.mood

\* emotion.charAt(0).toUpperCase() + emotion.slice(1)
Capitalised(emotion) ==
    CASE emotion = "happy" -> "Happy"
      [] emotion = "sad" -> "Sad"
      [] emotion = "calm" -> "Calm"
      [] emotion = "neutral" -> "Neutral"
      [] OTHER -> emotion

\* name.toLowerCase()
LowerCased(name) ==
    CASE name = "Happy" -> "happy"
      [] name = "Sad" -> "sad"
      [] name = "Calm" -> "calm"
      [] name = "Neutral" -> "neutral"
      [] OTHER -> name

\* getEmotionEmoji(emotion), by the name of the emoji
getEmotionEmoji(emotion) ==
    CASE emotion = "happy" -> "smiling face"
      [] emotion = "sad" -> "crying face"
      [] emotion = "calm" -> "relieved face"
      [] OTHER -> "neutral face"

\* analyzeEmotionDistributionSimple that reports the count as the value
analyzeEmotionDistributionSimple_countAsValue(entries) ==
    LET total == Len(entries)
        moods == [i \in 1..total |-> moodOrNeutral(entries[i])]
        emotions == Dedupe(moods)
        distribution ==
            SortDescBy([i \in 1..Len(emotions) |->
                          [name |-> Capitalised(emotions[i]),
                           value |-> Count(moods, emotions[i]),
                           count |-> Count(moods, emotions[i]),
                           emoji |-> getEmotionEmoji(emotions[i]),
                           intensity |-> "moderate",
                           trend |-> "stable"]], "value")
    IN  [success |-> TRUE,
         distribution |-> List(distribution),
         insights |-> [dominant_emotions |->
                           [i \in 1..(IF Len(distribution) < 3 THEN Len(distribution) ELSE 3)
                               |-> LowerCased(distribution[i].name)],
                       emotional_complexity |-> "moderate",
                       emotional_stability |-> "stable"],
         source |-> "simple"]

analyzeEmotionDistributionSimple(entries) ==
    LET total == Len(entries)
        moods == [i \in 1..total |-> moodOrNeutral(entries[i])]
        emotions == Dedupe(moods)
        distribution ==
            SortDescBy([i \in 1..Len(emotions) |->
                          [name |-> Capitalised(emotions[i]),
                           value |-> RoundPct(Count(moods, emotions[i]), total),
                           count |-> Count(moods, emotions[i]),
                           emoji |-> getEmotionEmoji(emotions[i]),
                           intensity |-> "moderate",
                           trend |-> "stable"]], "value")
    IN  [success |-> TRUE,
         distribution |-> List(distribution),
         insights |-> [dominant_emotions |->
                           [i \in 1..(IF Len(distribution) < 3 THEN Len(distribution) ELSE 3)
                               |-> LowerCased(distribution[i].name)],
                       emotional_complexity |-> "moderate",
                       emotional_stability |-> "stable"],
         source |-> "simple"]

\* the words of the vocabulary with fewer than three letters, which
\* text.match(/\b[a-z]{3,}\b/g) leaves out
ShortWords == {"hi"}

stopWords ==
    {"the", "a", "an", "and", "or", "but", "in", "on", "at", "to", "for",
     "of", "with", "is", "was", "are", "been", "be", "have", "has", "had",
     "do", "does", "did", "will", "would", "could", "should", "may", "might",
     "i", "you", "he", "she", "it", "we", "they", "my", "your", "his", "her",
     "its", "our", "their", "this", "that", "these", "those"}

getWordSentiment(word) ==
    IF word \in {"happy", "joy", "love", "excited", "great", "amazing", "wonderful",
                 "grateful", "success", "achieved"} THEN "positive"
    ELSE IF word \in {"sad", "angry", "frustrated", "stressed", "anxious", "worried",
                      "tired", "upset", "failed", "difficult"} THEN "negative"
    ELSE "neutral"

\* the texts of the entries, one after the other
RECURSIVE AllWords(_)
AllWords(entries) ==
    IF entries = <<>> THEN <<>>
    ELSE AllWords(SubSeq(entries, 1, Len(entries) - 1)) \o entries[Len(entries)].text

generateWordCloudSimple(entries) ==
    LET words == SelectSeq(AllWords(entries),
                           LAMBDA w : w \notin ShortWords /\ w \notin stopWords)
        texts == Dedupe(words)
        sorted == SortDescBy([i \in 1..Len(texts) |->
                                 [text |-> texts[i], frequency |-> Count(words, texts[i])]],
                             "frequency")
        top == SubSeq(sorted, 1, IF Len(sorted) < 30 THEN Len(sorted) ELSE 30)
    IN  [success |-> TRUE,
         words |-> List([i \in 1..Len(top) |->
                           LET sentiment == getWordSentiment(top[i].text) IN
                           [text |-> top[i].text,
                            frequency |-> top[i].frequency,
                            sentiment |-> sentiment,
                            color |-> IF sentiment = "positive" THEN "#10B981"
                                      ELSE IF sentiment = "negative" THEN "#EF4444"
                                      ELSE "#6B7280",
                            size |-> 14 + (IF top[i].frequency * 2 < 20
                                           THEN top[i].frequency * 2 ELSE 20)]]),
         insights |-> [themes |-> <<>>, emotional_tone |-> "mixed"],
         source |-> "simple"]

\* Math.round(a / b), for 0 <= a and 0 < b
RoundDiv(a, b) == (2 * a + b) \div (2 * b)

positiveMoods ==
    {"happy", "excited", "grateful", "calm", "confident", "hopeful", "optimistic",
     "peaceful", "content"}

negativeMoods ==
    {"sad", "angry", "anxious", "frustrated", "lonely", "overwhelmed", "stressed",
     "disappointed"}

\* the dates of the entries in ascending order, each once
datesOf(entries) ==
    LET dates == Dedupe([i \in 1..Len(entries) |-> entries[i].createdAt.day])
        sorted == SortAscBy([i \in 1..Len(dates) |-> [date |-> dates[i]]], "date")
    IN  [i \in 1..Len(sorted) |-> sorted[i].date]

\* parseFloat(((positive - negative) / total).toFixed(2)), in hundredths
scoreOf(positive, negative, total) ==
    IF positive >= negative
    THEN RoundDiv(100 * (positive - negative), total)
    ELSE 0 - RoundDiv(100 * (negative - positive), total)

generateSentimentOverTime(entries) ==
    IF NoEntries(entries) THEN List(<<>>)
    ELSE LET dates == datesOf(entries.l)
             on(date) == SelectSeq(entries.l, LAMBDA e : e.createdAt.day = date)
             positive(date) ==
                 Len(SelectSeq(on(date), LAMBDA e : moodOrNeutral(e) \in positiveMoods))
             negative(date) ==
                 Len(SelectSeq(on(date), LAMBDA e : moodOrNeutral(e) \in negativeMoods))
             total(date) == Len(on(date))
             neutral(date) == total(date) - positive(date) - negative(date)
         IN  List([i \in 1..Len(dates) |->
                     [date |-> dates[i],
                      score |-> scoreOf(positive(dates[i]), negative(dates[i]),
                                        total(dates[i])),
                      positive |-> RoundPct(positive(dates[i]), total(dates[i])),
                      neutral |-> RoundPct(neutral(dates[i]), total(dates[i])),
                      negative |-> RoundPct(negative(dates[i]), total(dates[i]))]])

\* each record is { date, [emotion]: count } for every emotion of the entries
generateEmotionsOverTime(entries) ==
    IF NoEntries(entries) THEN List(<<>>)
    ELSE LET dates == datesOf(entries.l)
             allEmotions == {moodOrNeutral(entries.l[i]) : i \in 1..Len(entries.l)}
         IN  List([i \in 1..Len(dates) |->
                     [k \in {"date"} \cup allEmotions |->
                         IF k = "date" THEN dates[i]
                         ELSE Len(SelectSeq(entries.l,
                                  LAMBDA e : /\ e.createdAt.day = dates[i]
                                             /\ moodOrNeutral(e) = k))]])

timeOfDay(hour) ==
    IF hour >= 5 /\ hour < 12 THEN "morning"
    ELSE IF hour >= 12 /\ hour < 17 THEN "afternoon"
    ELSE IF hour >= 17 /\ hour < 21 THEN "evening"
    ELSE "night"

\* text.split(/\s+/).filter(w => w.length > 0).length
wordCount(entry) == Len(entry.text)

lengthRange(entry) ==
    IF wordCount(entry) <= 100 THEN "0-100 words"
    ELSE IF wordCount(entry) <= 300 THEN "100-300 words"
    ELSE IF wordCount(entry) <= 500 THEN "300-500 words"
    ELSE "500+ words"

dayNames == <<"Sunday", "Monday", "Tuesday", "Wednesday", "Thursday", "Friday", "Saturday">>

\* day.substring(0, 3)
dayShort == <<"Sun", "Mon", "Tue", "Wed", "Thu", "Fri", "Sat">>

\* dayNames[date.getDay()]; day 0 is a Sunday
dayOfWeek(entry) == (entry.createdAt.day % 7) + 1

RECURSIVE SumWords(_)
SumWords(entries) ==
    IF entries = <<>> THEN 0
    ELSE SumWords(SubSeq(entries, 1, Len(entries) - 1)) + wordCount(entries[Len(entries)])

\* what analyzeWritingPatterns returns for no entries
emptyWritingPatterns ==
    [writingTimes |-> List(<<>>),
     entryLengths |-> List(<<>>),
     weeklyPattern |-> List(<<>>),
     stats |-> [total_entries |-> 0, total_words |-> 0, avg_words_per_entry |-> 0,
                most_active_day |-> "N/A", most_active_hour |-> "0"]]

analyzeWritingPatterns(entries) ==
    IF NoEntries(entries) THEN emptyWritingPatterns
    ELSE LET es == entries.l
             total == Len(es)
             at(time) == Len(SelectSeq(es, LAMBDA e : timeOfDay(e.createdAt.hour) = time))
             of(range) == Len(SelectSeq(es, LAMBDA e : lengthRange(e) = range))
             onDay(d) == Len(SelectSeq(es, LAMBDA e : dayOfWeek(e) = d))
             days == Dedupe([i \in 1..total |-> dayOfWeek(es[i])])
             byDay == SortDescBy([i \in 1..Len(days) |->
                                     [day |-> days[i], count |-> onDay(days[i])]], "count")
             \* the keys of entriesByHour are integers: Object.entries gives them ascending
             hours == SortAscBy([i \in 1..Len(Dedupe([j \in 1..total |-> es[j].createdAt.hour]))
                                   |-> [hour |-> Dedupe([j \in 1..total |->
                                                           es[j].createdAt.hour])[i]]], "hour")
             byHour == SortDescBy([i \in 1..Len(hours) |->
                                      [hour |-> hours[i].hour,
                                       count |-> Len(SelectSeq(es,
                                           LAMBDA e : e.createdAt.hour = hours[i].hour))]],
                                  "count")
             lengths == {wordCount(es[i]) : i \in 1..total}
         IN  [writingTimes |->
                 List([i \in 1..4 |->
                         LET time == <<"morning", "afternoon", "evening", "night">>[i] IN
                         [time |-> <<"Morning", "Afternoon", "Evening", "Night">>[i],
                          count |-> at(time),
                          percentage |-> RoundPct(at(time), total)]]),
              entryLengths |->
                 List([i \in 1..4 |->
                         LET range == <<"0-100 words", "100-300 words", "300-500 words",
                                        "500+ words">>[i] IN
                         [range |-> range,
                          count |-> of(range),
                          percentage |-> RoundPct(of(range), total)]]),
              weeklyPattern |->
                 List([d \in 1..7 |-> [day |-> dayShort[d], count |-> onDay(d)]]),
              stats |-> [total_entries |-> total,
                         total_words |-> SumWords(es),
                         avg_words_per_entry |-> RoundDiv(SumWords(es), total),
                         most_active_day |-> dayNames[byDay[1].day],
                         most_active_hour |-> <<byHour[1].hour, ":00">>,
                         longest_entry |-> CHOOSE n \in lengths : \A m \in lengths : m <= n,
                         shortest_entry |-> CHOOSE n \in lengths : \A m \in lengths : n <= m]]

\* generateMoodCorrelations that counts the transitions in the order given
generateMoodCorrelations_unsorted(entries) ==
    LET sortedEntries == entries
        keys == [i \in 1..(Len(sortedEntries) - 1) |->
                    <<moodOrNeutral(sortedEntries[i]), moodOrNeutral(sortedEntries[i + 1])>>]
        transitions == [i \in 1..Len(Dedupe(keys)) |->
                           [key |-> Dedupe(keys)[i], count |-> Count(keys, Dedupe(keys)[i])]]
        withMood == SelectSeq(entries, LAMBDA e : e.mood # "")
        moods == Dedupe([i \in 1..Len(withMood) |-> withMood[i].mood])
        ofMood(mood) == SelectSeq(withMood, LAMBDA e : e.mood = mood)
        during(time) == SelectSeq(withMood, LAMBDA e : timeOfDay(e.createdAt.hour) = time)
        moodsDuring(time) ==
            [mood \in {during(time)[i].mood : i \in 1..Len(during(time))} |->
                Len(SelectSeq(during(time), LAMBDA e : e.mood = mood))]
    IN  [moodTagCorrelations |-> [mood \in {moods[i] : i \in 1..Len(moods)} |-> NoItems],
         moodLengthCorrelations |->
             List([i \in 1..Len(moods) |->
                     [mood |-> moods[i],
                      avgLength |-> RoundDiv(SumWords(ofMood(moods[i])), Len(ofMood(moods[i]))),
                      entries |-> Len(ofMood(moods[i]))]]),
         timeOfDayMoods |-> [morning |-> moodsDuring("morning"),
                             afternoon |-> moodsDuring("afternoon"),
                             evening |-> moodsDuring("evening"),
                             night |-> moodsDuring("night")],
         transitions |-> transitions,
         mostCommonTransition |->
             IF transitions = <<>> THEN Null
             ELSE List(<<SortDescBy(transitions, "count")[1].key,
                         SortDescBy(transitions, "count")[1].count>>)]

\* generateMoodCorrelations(entries) for an array entries.  An object whose
\* keys are computed (transitions) is the sequence of its [key, count]
\* properties in the order they were first set.
generateMoodCorrelations(entries) ==
    LET sortedEntries ==
            LET stamped == SortAscBy([i \in 1..Len(entries) |->
                               [entry |-> entries[i],
                                time |-> entries[i].createdAt.day * 24
                                            + entries[i].createdAt.hour]], "time")
            IN  [i \in 1..Len(stamped) |-> stamped[i].entry]
        keys == [i \in 1..(Len(sortedEntries) - 1) |->
                    <<moodOrNeutral(sortedEntries[i]), moodOrNeutral(sortedEntries[i + 1])>>]
        transitions == [i \in 1..Len(Dedupe(keys)) |->
                           [key |-> Dedupe(keys)[i], count |-> Count(keys, Dedupe(keys)[i])]]
        withMood == SelectSeq(entries, LAMBDA e : e.mood # "")
        moods == Dedupe([i \in 1..Len(withMood) |-> withMood[i].mood])
        ofMood(mood) == SelectSeq(withMood, LAMBDA e : e.mood = mood)
        during(time) == SelectSeq(withMood, LAMBDA e : timeOfDay(e.createdAt.hour) = time)
        moodsDuring(time) ==
            [mood \in {during(time)[i].mood : i \in 1..Len(during(time))} |->
                Len(SelectSeq(during(time), LAMBDA e : e.mood = mood))]
    IN  [moodTagCorrelations |-> [mood \in {moods[i] : i \in 1..Len(moods)} |-> NoItems],
         moodLengthCorrelations |->
             List([i \in 1..Len(moods) |->
                     [mood |-> moods[i],
                      avgLength |-> RoundDiv(SumWords(ofMood(moods[i])), Len(ofMood(moods[i]))),
                      entries |-> Len(ofMood(moods[i]))]]),
         timeOfDayMoods |-> [morning |-> moodsDuring("morning"),
                             afternoon |-> moodsDuring("afternoon"),
                             evening |-> moodsDuring("evening"),
                             night |-> moodsDuring("night")],
         transitions |-> transitions,
         mostCommonTransition |->
             IF transitions = <<>> THEN Null
             ELSE List(<<SortDescBy(transitions, "count")[1].key,
                         SortDescBy(transitions, "count")[1].count>>)]

\* getEmptyInsights without the wordCloud key
getEmptyInsights_noWordCloud ==
    [emotionDistribution |-> List(<<>>),
     sentimentAnalysis |-> List(<<>>),
     emotionsOverTime |-> List(<<>>),
     writingPatterns |-> [totalEntries |-> 0, totalWords |-> 0, averageWordsPerEntry |-> 0],
     moodCorrelations |-> generateMoodCorrelations(<<>>)]

getEmptyInsights ==
    [emotionDistribution |-> List(<<>>),
     sentimentAnalysis |-> List(<<>>),
     emotionsOverTime |-> List(<<>>),
     wordCloud |-> List(<<>>),
     writingPatterns |-> [totalEntries |-> 0, totalWords |-> 0, averageWordsPerEntry |-> 0],
     moodCorrelations |-> [moodTagCorrelations |-> NoItems,
                           moodLengthCorrelations |-> List(<<>>),
                           timeOfDayMoods |-> [morning |-> NoItems, afternoon |-> NoItems,
                                               evening |-> NoItems, night |-> NoItems],
                           transitions |-> <<>>,
                           mostCommonTransition |-> Null]]

\* what a call of the Gemini model comes to: the request rejects or its text
\* is not JSON ("fails"), the text is the JSON object the prompt asks for
\* ("full"), the text is a JSON object without the keys asked for ("other")
AiOutcomes == {"fails", "full", "other"}

\* the tiers in the order a capability tried them
NoTier == <<>>

getDefaultMoodResult ==
    [success |-> TRUE, mood |-> Str("neutral"), confidence |-> Num(50),
     emotions |-> [primary |-> "neutral", secondary |-> List(<<>>), intensity |-> "low"],
     sentiment |-> [polarity |-> 0, subjectivity |-> 0],
     keywords |-> List(<<>>), reasoning |-> Str("No text provided"), source |-> "default"]

\* analyzeMoodWithAI(text); confidence in hundredths
analyzeMoodWithAI(text, outcome) ==
    IF outcome = "fails" THEN Throw("Failed to parse AI response")
    ELSE IF outcome = "full"
    THEN Ret([success |-> TRUE, mood |-> Str("happy"), confidence |-> Num(85),
              emotions |-> [primary |-> "happy", secondary |-> List(<<>>),
                            intensity |-> "high"],
              sentiment |-> [polarity |-> 70, subjectivity |-> 60],
              keywords |-> List(<<"day">>), reasoning |-> Str("by the model"),
              source |-> "ai"])
    ELSE Ret([success |-> TRUE, mood |-> Undef, confidence |-> Undef, emotions |-> Undef,
              sentiment |-> Undef, keywords |-> List(<<>>), reasoning |-> Undef,
              source |-> "ai"])

\* analyzeMood(text): text is absent (Undef) or the sequence of its words.
\* analyzeMoodWithHeuristics is not a method of the class (its definition is
\* commented out), so calling it throws a TypeError.
analyzeMood(text, ai, outcome) ==
    IF text = Undef \/ text = <<>>
    THEN [out |-> Ret(getDefaultMoodResult), tried |-> NoTier]
    ELSE IF ai /\ ~analyzeMoodWithAI(text, outcome).threw
    THEN [out |-> analyzeMoodWithAI(text, outcome), tried |-> <<"ai">>]
    ELSE [out |-> Throw("this.analyzeMoodWithHeuristics is not a function"),
          tried |-> (IF ai THEN <<"ai">> ELSE NoTier) \o <<"heuristic">>]

analyzeEmotionDistributionWithAI(entries, outcome) ==
    IF outcome = "fails" THEN Throw("Failed to parse AI response")
    ELSE IF outcome = "full"
    THEN LET analysis == [emotion_distribution |->
                             List(<<[name |-> "Happy", value |-> 100, count |-> Len(entries)]>>),
                          dominant_emotions |-> List(<<"happy">>)]
         IN  Ret([success |-> TRUE, distribution |-> analysis.emotion_distribution,
                  insights |-> analysis, source |-> "ai"])
    ELSE Ret([success |-> TRUE, distribution |-> Undef,
              insights |-> [note |-> "nothing to report"], source |-> "ai"])

analyzeEmotionDistribution(entries, ai, outcome) ==
    IF NoEntries(entries)
    THEN [out |-> Ret([success |-> TRUE, distribution |-> List(<<>>), insights |-> NoItems]),
          tried |-> NoTier]
    ELSE IF ai /\ ~analyzeEmotionDistributionWithAI(entries.l, outcome).threw
    THEN [out |-> analyzeEmotionDistributionWithAI(entries.l, outcome), tried |-> <<"ai">>]
    ELSE [out |-> Ret(analyzeEmotionDistributionSimple(entries.l)),
          tried |-> (IF ai THEN <<"ai">> ELSE NoTier) \o <<"heuristic">>]

generateWordCloudWithAI(entries, outcome) ==
    IF outcome = "fails" THEN Throw("Failed to parse AI response")
    ELSE IF outcome = "full"
    THEN LET wordCloudData == [words |-> List(<<[text |-> "day", frequency |-> Len(entries),
                                                 sentiment |-> "neutral"]>>),
                               themes |-> List(<<"days">>)]
         IN  Ret([success |-> TRUE, words |-> wordCloudData.words,
                  insights |-> wordCloudData, source |-> "ai"])
    ELSE Ret([success |-> TRUE, words |-> Undef,
              insights |-> [note |-> "nothing to report"], source |-> "ai"])

generateWordCloud(entries, ai, outcome) ==
    IF NoEntries(entries)
    THEN [out |-> Ret([success |-> TRUE, words |-> List(<<>>), insights |-> NoItems]),
          tried |-> NoTier]
    ELSE IF ai /\ ~generateWordCloudWithAI(entries.l, outcome).threw
    THEN [out |-> generateWordCloudWithAI(entries.l, outcome), tried |-> <<"ai">>]
    ELSE [out |-> Ret(generateWordCloudSimple(entries.l)),
          tried |-> (IF ai THEN <<"ai">> ELSE NoTier) \o <<"heuristic">>]

\* the texts analyzeMood is called with
MoodTexts == {Undef, <<>>, <<"the", "happy", "day">>}

\* an array one of whose elements is null: reading its mood throws a TypeError
MalformedEntries == List(<<Null>>)

WellFormed(entries) == entries = Undef \/ \A i \in 1..Len(entries.l) : entries.l[i] # Null

\* an entry whose title is a Symbol: building `${entry.title || ''} ${entry.content || ''}`
\* from it throws a TypeError
SymbolTitled(id, mood, day, hour) ==
    [id |-> id, text |-> <<>>, mood |-> mood, createdAt |-> [day |-> day, hour |-> hour],
     title |-> [t |-> "symbol"]]

Unreadable(entry) == "title" \in DOMAIN entry

\* an entry list whose second entry has such a title and no mood
UnreadableEntries ==
    List(<<AEntry(1, <<"the", "happy", "day">>, "happy", 1, 9), SymbolTitled(2, "", 2, 13)>>)

Readable(entries) ==
    entries = Undef \/ \A i \in 1..Len(entries.l) : ~Unreadable(entries.l[i])

\* the capabilities that throw on the well-formed array entries: the word cloud
\* and the writing patterns read the text of every entry, the mood
\* correlations the text of the entries that have a mood, the other three
\* read no text
Throwing(entries) ==
    {capability \in {"wordCloud", "writingPatterns"} : ~Readable(entries)}
    \cup {capability \in {"moodCorrelations"} :
             \E i \in 1..Len(entries.l) : Unreadable(entries.l[i]) /\ entries.l[i].mood # ""}

\* what a capability is called with and what the service was when it was
Asked(op, arg) ==
    [op |-> op, arg |-> arg, ai |-> isAIAvailable, python |-> pythonAvailable]

\* checkPythonBackend(); ok: the request to /health was answered with a 2xx
CheckPythonBackend(ok) ==
    /\ pythonAvailable' = ok
    /\ UNCHANGED <<call, db, reply, cache, now, got, instances, localStorage, isAIAvailable, running>>

AnalyzeMood(text, outcome) ==
    /\ LET r == analyzeMood(text, isAIAvailable, outcome)
       IN  reply' = Spread(Asked("analyzeMood", text), [out |-> r.out, tried |-> r.tried])
    /\ UNCHANGED <<call, db, cache, now, got, instances, analytics, running>>

AnalyzeEmotionDistribution(entries, outcome) ==
    /\ LET r == analyzeEmotionDistribution(entries, isAIAvailable, outcome)
       IN  reply' = Spread(Asked("analyzeEmotionDistribution", entries),
                           [out |-> r.out, tried |-> r.tried])
    /\ UNCHANGED <<call, db, cache, now, got, instances, analytics, running>>

GenerateWordCloud(entries, outcome) ==
    /\ LET r == generateWordCloud(entries, isAIAvailable, outcome)
       IN  reply' = Spread(Asked("generateWordCloud", entries),
                           [out |-> r.out, tried |-> r.tried])
    /\ UNCHANGED <<call, db, cache, now, got, instances, analytics, running>>

GenerateSentimentOverTime(entries) ==
    /\ reply' = Spread(Asked("generateSentimentOverTime", entries),
                       [out |-> Ret(generateSentimentOverTime(entries)),
                        tried |-> IF NoEntries(entries) THEN NoTier ELSE <<"heuristic">>])
    /\ UNCHANGED <<call, db, cache, now, got, instances, analytics, running>>

GenerateEmotionsOverTime(entries) ==
    /\ reply' = Spread(Asked("generateEmotionsOverTime", entries),
                       [out |-> Ret(generateEmotionsOverTime(entries)),
                        tried |-> IF NoEntries(entries) THEN NoTier ELSE <<"heuristic">>])
    /\ UNCHANGED <<call, db, cache, now, got, instances, analytics, running>>

AnalyzeWritingPatterns(entries) ==
    /\ reply' = Spread(Asked("analyzeWritingPatterns", entries),
                       [out |-> Ret(analyzeWritingPatterns(entries)),
                        tried |-> IF NoEntries(entries) THEN NoTier ELSE <<"heuristic">>])
    /\ UNCHANGED <<call, db, cache, now, got, instances, analytics, running>>

\* generateMoodCorrelations(entries): [...entries] throws when entries is absent
GenerateMoodCorrelations(entries) ==
    /\ reply' = Spread(Asked("generateMoodCorrelations", entries),
                       [out |-> IF entries = Undef THEN Throw("entries is not iterable")
                                ELSE Ret(generateMoodCorrelations(entries.l)),
                        tried |-> <<"heuristic">>])
    /\ UNCHANGED <<call, db, cache, now, got, instances, analytics, running>>

\* this.cacheTimeout = 30 * 60 * 1000
cacheTimeout == 30 * 60 * 1000

\* JSON.parse(JSON.stringify(value)) of an object: a property whose value is
\* undefined is left out
JSONParseStringify(value) ==
    [k \in {k \in DOMAIN value : value[k] # Undef} |-> value[k]]

\* generateComprehensiveInsights(userId, entries): the envelope it returns,
\* the tiers its two remote capabilities tried, and whether it calls
\* cacheInsights(userId, insights)
generateComprehensiveInsights(entries, ai, outcomeDistribution, outcomeWordCloud) ==
    IF NoEntries(entries)
    THEN [out |-> [success |-> TRUE, insights |-> getEmptyInsights],
          tried |-> NoTier, caches |-> FALSE]
    ELSE IF ~WellFormed(entries)
    THEN [out |-> [success |-> FALSE,
                   error |-> "Cannot read properties of null (reading 'mood')",
                   insights |-> getEmptyInsights],
          tried |-> (IF ai THEN <<"ai">> ELSE NoTier) \o <<"heuristic">>,
          caches |-> FALSE]
    ELSE IF Throwing(entries) # {}
    THEN [out |-> [success |-> FALSE,
                   error |-> "Cannot convert a Symbol value to a string",
                   insights |-> getEmptyInsights],
          tried |-> (IF ai THEN <<"ai">> ELSE NoTier) \o <<"heuristic">>,
          caches |-> FALSE]
    ELSE LET emotionDistribution ==
                 analyzeEmotionDistribution(entries, ai, outcomeDistribution)
             wordCloud == generateWordCloud(entries, ai, outcomeWordCloud)
             insights ==
                 [emotionDistribution |-> emotionDistribution.out.val.distribution,
                  sentimentAnalysis |-> generateSentimentOverTime(entries),
                  emotionsOverTime |-> generateEmotionsOverTime(entries),
                  wordCloud |-> wordCloud.out.val.words,
                  writingPatterns |-> analyzeWritingPatterns(entries),
                  moodCorrelations |-> generateMoodCorrelations(entries.l)]
         IN  [out |-> [success |-> TRUE, insights |-> insights],
              tried |-> emotionDistribution.tried \o wordCloud.tried,
              caches |-> TRUE]

\* generateComprehensiveInsights(userId, entries); stored: localStorage.setItem
\* in cacheInsights did not throw
GenerateComprehensiveInsights(userId, entries, outcomeDistribution, outcomeWordCloud, stored) ==
    /\ LET r == generateComprehensiveInsights(entries, isAIAvailable,
                                              outcomeDistribution, outcomeWordCloud)
       IN  /\ reply' = Spread(Asked("generateComprehensiveInsights", entries),
                              [userId |-> userId, out |-> Ret(r.out), tried |-> r.tried,
                               at |-> now, stored |-> stored])
           /\ localStorage' =
                 IF r.caches /\ stored
                 THEN [k \in DOMAIN localStorage \cup {analyticsKey(userId)} |->
                          IF k = analyticsKey(userId)
                          THEN [data |-> JSONParseStringify(r.out.insights),
                                timestamp |-> now]
                          ELSE localStorage[k]]
                 ELSE localStorage
    /\ UNCHANGED <<call, db, cache, now, got, instances, isAIAvailable, pythonAvailable, running>>

\* getCachedInsights(userId)
GetCachedInsights(userId) ==
    /\ LET key == analyticsKey(userId)
           cached == IF key \in DOMAIN localStorage THEN localStorage[key] ELSE Null
       IN  reply' = [op |-> "getCachedInsights", userId |-> userId, at |-> now,
                     cached |-> cached,
                     out |-> Ret(IF cached = Null THEN Null
                                 ELSE IF now - cached.timestamp < cacheTimeout
                                 THEN cached.data
                                 ELSE Null)]
    /\ UNCHANGED <<call, db, cache, now, got, instances, analytics, running>>

\* clearCache(userId)
ClearCache(userId) ==
    /\ localStorage' = Without(localStorage, {analyticsKey(userId)})
    /\ reply' = [op |-> "clearCache", userId |-> userId, at |-> now, out |-> Ret(Undef)]
    /\ UNCHANGED <<call, db, cache, now, got, instances, isAIAvailable, pythonAvailable, running>>

\* the capabilities of the service, each called by itself
NextCapabilities ==
    \/ \E ok \in BOOLEAN : CheckPythonBackend(ok)
    \/ \E text \in MoodTexts, outcome \in AiOutcomes : AnalyzeMood(text, outcome)
    \/ \E entries \in EntryLists, outcome \in AiOutcomes :
          AnalyzeEmotionDistribution(entries, outcome)
    \/ \E entries \in EntryLists, outcome \in AiOutcomes :
          GenerateWordCloud(entries, outcome)
    \/ \E entries \in EntryLists : GenerateSentimentOverTime(entries)
    \/ \E entries \in EntryLists : GenerateEmotionsOverTime(entries)
    \/ \E entries \in EntryLists : AnalyzeWritingPatterns(entries)
    \/ \E entries \in EntryLists : GenerateMoodCorrelations(entries)

\* the bundle of all six, for one user
NextInsights ==
    \/ \E ok \in BOOLEAN : CheckPythonBackend(ok)
    \/ \E entries \in EntryLists \cup {MalformedEntries, UnreadableEntries},
          outcomeDistribution \in AiOutcomes, outcomeWordCloud \in AiOutcomes :
          GenerateComprehensiveInsights("u1", entries, outcomeDistribution,
                                        outcomeWordCloud, TRUE)

\* the instants at which the bundle cache is written and read
LaterTimes == (0..MaxDelta) \cup ((cacheTimeout - 1)..(cacheTimeout + MaxDelta))

\* the entry lists whose bundles are cached and read back
CachedLists == {entries \in EntryLists \ {Undef} : Len(entries.l) \in {0, 2}}

\* the bundle cache of a service that has no API key, for two users
NextInsightCache ==
    \/ \E userId \in UserIds, entries \in CachedLists, stored \in BOOLEAN :
          GenerateComprehensiveInsights(userId, entries, "fails", "fails", stored)
    \/ \E userId \in UserIds : GetCachedInsights(userId)
    \/ \E userId \in UserIds : ClearCache(userId)
    \/ \E t \in LaterTimes : Tick(t)

(***************************************************************************)
(* The heuristics on the entries the Insights page has loaded              *)
(* (src/src/components/insights/Insights.js keeps them in its state and    *)
(* hands them to the analytics service and to the fallbacks)               *)
(***************************************************************************)
\* the mood labels of the loaded entries; "" is an entry without a label
Moods == {"happy", "sad", "calm", ""}

\* the calendar days the loaded entries were written on
Days == {1, 2}

\* the entry arrays the page loads
LoadedLists ==
    UNION {[1..n -> {AEntry(0, <<>>, mood, day, 9) : mood \in Moods, day \in Days}] :
              n \in 0..(MaxEntries + 1)}

\* AIMoodAnalysisService.fallbackEmotionDistribution(entries)
fallbackEmotionDistribution(entries) ==
    LET withMood == SelectSeq(entries, LAMBDA e : e.mood # "")
        moods == [i \in 1..Len(withMood) |-> withMood[i].mood]
        emotions == Dedupe(moods)
        total == Len(entries)
        distribution ==
            [i \in 1..Len(emotions) |->
                [name |-> Capitalised(emotions[i]),
                 value |-> RoundPct(Count(moods, emotions[i]), total),
                 count |-> Count(moods, emotions[i]),
                 emoji |-> getEmotionEmoji(emotions[i]),
                 intensity |-> "moderate",
                 trend |-> "stable"]]
    IN  [success |-> TRUE,
         distribution |-> List(distribution),
         insights |-> [dominant_emotions |->
                           [i \in 1..(IF Len(distribution) < 3 THEN Len(distribution) ELSE 3)
                               |-> LowerCased(distribution[i].name)],
                       emotional_complexity |-> "moderate",
                       emotional_stability |-> "stable"]]

\* generateSimpleEmotionDistribution(entriesData) of the Insights page
generateSimpleEmotionDistribution(entries) ==
    LET withMood == SelectSeq(entries, LAMBDA e : e.mood # "")
        moods == [i \in 1..Len(withMood) |-> withMood[i].mood]
        emotions == Dedupe(moods)
        totalEntries == Len(withMood)
    IN  List([i \in 1..Len(emotions) |->
                [name |-> Capitalised(emotions[i]),
                 value |-> RoundPct(Count(moods, emotions[i]), totalEntries),
                 count |-> Count(moods, emotions[i]),
                 emoji |-> getEmotionEmoji(emotions[i])]])

\* the caller's array once generateMoodCorrelations has returned: the function
\* sorts the copy [...entries] only
entriesAfterMoodCorrelations(entries) == entries

FallbackEmotionDistribution ==
    /\ entriesData # Undef
    /\ reply' = Spread(Asked("fallbackEmotionDistribution", entriesData),
                       [out |-> Ret(fallbackEmotionDistribution(entriesData.l)),
                        tried |-> <<"heuristic">>])
    /\ UNCHANGED <<call, db, cache, now, got, instances, analytics, running>>

GenerateSimpleEmotionDistribution ==
    /\ entriesData # Undef
    /\ reply' = Spread(Asked("generateSimpleEmotionDistribution", entriesData),
                       [out |-> Ret(generateSimpleEmotionDistribution(entriesData.l)),
                        tried |-> <<"heuristic">>])
    /\ UNCHANGED <<call, db, cache, now, got, instances, analytics, running>>

\* generateMoodCorrelations(entries) on the page's array
MoodCorrelationsOfLoaded ==
    /\ entriesData # Undef
    /\ reply' = Spread(Asked("generateMoodCorrelations", entriesData),
                       [out |-> Ret(generateMoodCorrelations(entriesData.l)),
                        tried |-> <<"heuristic">>])
    /\ entriesData' = List(entriesAfterMoodCorrelations(entriesData.l))
    /\ UNCHANGED <<call, db, cache, now, got, instances, analytics, pending, calls>>

\* the heuristics of a service that has no API key, on the loaded entries
NextHeuristics ==
    \/ AnalyzeEmotionDistribution(entriesData, "fails")
    \/ FallbackEmotionDistribution
    \/ GenerateSimpleEmotionDistribution
    \/ GenerateSentimentOverTime(entriesData)
    \/ MoodCorrelationsOfLoaded

(***************************************************************************)
(* The analytics calls as they run: an async call is suspended at its      *)
(* await until the provider has answered the request.  The constructor     *)
(* starts the health probe of the Python backend; a capability call with   *)
(* an API key sends its prompt with model.generateContent.  No request is  *)
(* given an AbortController or a timer (fetch ignores the option           *)
(* timeout: 2000), so a request ends only when the provider answers.       *)
(***************************************************************************)
\* checkPythonBackend() awaiting fetch(`${this.pythonBaseURL}/health`)
Probe == [op |-> "checkPythonBackend", waiting |-> {"health"}]

RemoteCapabilities ==
    {"analyzeEmotionDistribution", "generateWordCloud", "generateComprehensiveInsights"}

\* the model.generateContent requests a call of op awaits
requestsOf(op) ==
    CASE op = "analyzeEmotionDistribution" -> {"emotionDistribution"}
      [] op = "generateWordCloud" -> {"wordCloud"}
      [] op = "generateComprehensiveInsights" -> {"emotionDistribution", "wordCloud"}

\* the entry lists the calls under way are made with
RemoteLists == {entries \in EntryLists : ~NoEntries(entries) /\ Len(entries.l) = 2}

CallPending == \E c \in pending : c.op \in RemoteCapabilities

ProbePending == Probe \in pending

\* a capability is called and reaches the await of its requests
BeginCall(op, entries) ==
    /\ isAIAvailable
    /\ ~CallPending
    /\ pending' = pending \cup {[op |-> op, arg |-> entries, waiting |-> requestsOf(op),
                                  answers |-> NoItems]}
    /\ UNCHANGED <<call, db, reply, cache, now, got, instances, analytics, entriesData, calls>>

\* the Python backend answers the health probe; ok: with a 2xx status
HealthAnswers(ok) ==
    /\ ProbePending
    /\ pending' = pending \ {Probe}
    /\ pythonAvailable' = ok
    /\ UNCHANGED <<call, db, reply, cache, now, got, instances, localStorage,
                   isAIAvailable, entriesData, calls>>

\* the call c with its request answered by outcome
answered(c, request, outcome) ==
    [c EXCEPT !.waiting = @ \ {request},
              !.answers = [r \in DOMAIN @ \cup {request} |->
                              IF r = request THEN outcome ELSE @[r]]]

\* what the call c returns once all its requests were answered
returned(c) ==
    CASE c.op = "analyzeEmotionDistribution" ->
             analyzeEmotionDistribution(c.arg, TRUE, c.answers["emotionDistribution"])
      [] c.op = "generateWordCloud" ->
             generateWordCloud(c.arg, TRUE, c.answers["wordCloud"])
      [] c.op = "generateComprehensiveInsights" ->
             generateComprehensiveInsights(c.arg, TRUE, c.answers["emotionDistribution"],
                                           c.answers["wordCloud"])

\* the call c run to its return statement: its promise is settled with the result
settled(c) ==
    [op |-> c.op, arg |-> c.arg, waiting |-> {},
     result |-> IF c.op = "generateComprehensiveInsights"
                THEN Spread(Asked(c.op, c.arg),
                            [userId |-> "u1", out |-> Ret(returned(c).out),
                             tried |-> returned(c).tried, at |-> now, stored |-> TRUE])
                ELSE Spread(Asked(c.op, c.arg),
                            [out |-> returned(c).out, tried |-> returned(c).tried])]

\* the Gemini model answers one request of a call under way and the call
\* runs on from its await: with requests still unanswered it stays suspended
\* in Promise.all, else it runs to its return (generateComprehensiveInsights,
\* called for the user u1, stores the bundle with cacheInsights on the way)
ModelAnswers(request, outcome) ==
    /\ \E c \in pending :
          /\ c.op \in RemoteCapabilities
          /\ request \in c.waiting
          /\ LET next == answered(c, request, outcome) IN
             IF next.waiting # {}
             THEN /\ pending' = (pending \ {c}) \cup {next}
                  /\ UNCHANGED localStorage
             ELSE /\ pending' = (pending \ {c}) \cup {settled(next)}
                  /\ localStorage' =
                        IF c.op = "generateComprehensiveInsights" /\ returned(next).caches
                        THEN [k \in DOMAIN localStorage \cup {analyticsKey("u1")} |->
                                 IF k = analyticsKey("u1")
                                 THEN [data |-> JSONParseStringify(returned(next).out.insights),
                                       timestamp |-> now]
                                 ELSE localStorage[k]]
                        ELSE localStorage
    /\ UNCHANGED <<call, db, reply, cache, now, got, instances, isAIAvailable,
                   pythonAvailable, entriesData, calls>>

\* the caller's await of a settled call receives its result
ReturnCall ==
    /\ \E c \in pending :
          /\ c.op \in RemoteCapabilities
          /\ c.waiting = {}
          /\ pending' = pending \ {c}
          /\ reply' = c.result
    /\ UNCHANGED <<call, db, cache, now, got, instances, analytics, entriesData, calls>>

NextRemote ==
    \/ \E op \in RemoteCapabilities, entries \in RemoteLists : BeginCall(op, entries)
    \/ \E ok \in BOOLEAN : HealthAnswers(ok)
    \/ \E request \in {"emotionDistribution", "wordCloud"}, outcome \in AiOutcomes :
          ModelAnswers(request, outcome)
    \/ ReturnCall

(***************************************************************************)
(* withCache calls on shortCache that interleave (cacheUtils.js)           *)
(***************************************************************************)
\* the callers whose withCache calls may be under way at the same time
Callers == {1, 2}

\* the key they ask for, what fn may do, and the times of their steps
CallKeys == {<<"u1", "mood">>}
CallOutcomes == {Ret(value) : value \in CacheValues} \cup {Throw("fn failed")}
CallTimes == 0..MaxDelta

\* a caller that has no call under way and has made none
Idle ==
    [pc |-> "idle", key |-> <<>>, ran |-> FALSE, result |-> Ret(Undef),
     ret |-> Ret(Undef), at |-> 0, raced |-> FALSE, cleared |-> FALSE]

NoCalls == [i \in Callers |-> Idle]

\* the call of caller i is suspended at "await fn()"
Suspended(i) == calls[i].pc \in {"inFn", "computed"}

\* withCache up to "await fn()": the lookup unless forceRefresh, then either the
\* return of the record found or the call of fn, which suspends the caller.
\* raced: another call for the same key was suspended when this one missed
BeginWithCache(i, cacheKey, forceRefresh) ==
    LET g == IF forceRefresh THEN [ret |-> Undef, items |-> cache]
             ELSE cacheGet(cache, cacheKey, now)
        others == {j \in Callers \ {i} : Suspended(j) /\ calls[j].key = cacheKey}
        begun == [Idle EXCEPT !.key = cacheKey]
    IN  /\ ~Suspended(i)
        /\ cache' = g.items
        /\ IF ~forceRefresh /\ ~Falsy(g.ret)
           THEN calls' = [calls EXCEPT ![i] = [begun EXCEPT !.pc = "done",
                                                           !.ret = Ret(g.ret)]]
           ELSE calls' = [j \in Callers |->
                             IF j = i THEN [begun EXCEPT !.pc = "inFn", !.ran = TRUE,
                                                         !.raced = others # {}]
                             ELSE IF j \in others THEN [calls[j] EXCEPT !.raced = TRUE]
                             ELSE calls[j]]
        /\ UNCHANGED <<call, db, reply, now, got, instances, analytics, entriesData, pending>>

\* fn, still running, arrives at the value it will resolve with or at its failure
FnComputes(i, outcome) ==
    /\ calls[i].pc = "inFn"
    /\ calls' = [calls EXCEPT ![i].pc = "computed", ![i].result = outcome]
    /\ UNCHANGED <<call, db, reply, cache, now, got, instances, analytics, entriesData, pending>>

\* fn's promise settles and withCache resumes: cache.set(cacheKey, result) and
\* the return of result, or the rejection passed on to the caller
FnSettles(i) ==
    /\ calls[i].pc = "computed"
    /\ calls' = [calls EXCEPT ![i].pc = "done", ![i].ret = calls[i].result, ![i].at = now]
    /\ cache' = IF calls[i].result.threw THEN cache
                ELSE cacheSet(cache, calls[i].key, calls[i].result.val, now)
    /\ UNCHANGED <<call, db, reply, now, got, instances, analytics, entriesData, pending>>

\* clearByPrefix(prefix) on shortCache while calls may be suspended.  cleared:
\* the call's key starts with prefix and fn had its value when the clear ran
ClearWhileSuspended(prefix) ==
    /\ cache' = clearByPrefix(cache, prefix)
    /\ calls' = [i \in Callers |->
                    IF calls[i].pc = "computed" /\ startsWith(calls[i].key, prefix)
                    THEN [calls[i] EXCEPT !.cleared = TRUE]
                    ELSE calls[i]]
    /\ UNCHANGED <<call, db, reply, now, got, instances, analytics, entriesData, pending>>

NextInterleaved ==
    \/ \E i \in Callers, cacheKey \in CallKeys, forceRefresh \in BOOLEAN :
          BeginWithCache(i, cacheKey, forceRefresh)
    \/ \E i \in Callers, outcome \in CallOutcomes : FnComputes(i, outcome)
    \/ \E i \in Callers : FnSettles(i)
    \/ \E prefix \in Prefixes : ClearWhileSuspended(prefix)
    \/ \E t \in CallTimes : Tick(t)

Init ==
    /\ call = NoCall
    /\ db = <<>>
    /\ reply = NoCall
    /\ cache = NoItems
    /\ now = 0
    /\ got = NoCall
    /\ mediumCache = NoItems
    /\ longCache = NoItems
    /\ localStorage = NoItems
    /\ isAIAvailable = FALSE
    /\ pythonAvailable = FALSE
    /\ entriesData = Undef
    /\ pending = {}
    /\ calls = NoCalls

SpecCodec == Init /\ [][NextCodec]_vars

SpecStore == Init /\ [][NextStore]_vars

SpecCache == Init /\ [][NextCache]_vars

SpecCaches == Init /\ [][NextCaches]_vars

SpecWithCache == Init /\ [][NextWithCache]_vars

SpecStale == Init /\ [][NextStale]_vars

\* the service as its constructor leaves it: isAIAvailable says whether an API
\* key is configured, pythonAvailable is false until /health has answered
InitInsights ==
    /\ call = NoCall
    /\ db = <<>>
    /\ reply = NoCall
    /\ cache = NoItems
    /\ now = 0
    /\ got = NoCall
    /\ mediumCache = NoItems
    /\ longCache = NoItems
    /\ localStorage = NoItems
    /\ isAIAvailable \in BOOLEAN
    /\ pythonAvailable = FALSE
    /\ entriesData = Undef
    /\ pending = {}
    /\ calls = NoCalls

SpecCapabilities == InitInsights /\ [][NextCapabilities]_vars

SpecInsights == InitInsights /\ [][NextInsights]_vars

SpecInsightCache == Init /\ [][NextInsightCache]_vars

\* the page has loaded its entries; the service has no API key
InitHeuristics ==
    /\ call = NoCall
    /\ db = <<>>
    /\ reply = NoCall
    /\ cache = NoItems
    /\ now = 0
    /\ got = NoCall
    /\ mediumCache = NoItems
    /\ longCache = NoItems
    /\ localStorage = NoItems
    /\ isAIAvailable = FALSE
    /\ pythonAvailable = FALSE
    /\ entriesData \in {List(entries) : entries \in LoadedLists}
    /\ pending = {}
    /\ calls = NoCalls

SpecHeuristics == InitHeuristics /\ [][NextHeuristics]_vars

\* the service just constructed with an API key: the health probe is under way
InitRemote ==
    /\ call = NoCall
    /\ db = <<>>
    /\ reply = NoCall
    /\ cache = NoItems
    /\ now = 0
    /\ got = NoCall
    /\ mediumCache = NoItems
    /\ longCache = NoItems
    /\ localStorage = NoItems
    /\ isAIAvailable = TRUE
    /\ pythonAvailable = FALSE
    /\ entriesData = Undef
    /\ pending = {Probe}
    /\ calls = NoCalls

\* the event loop runs a continuation that is ready; nothing makes a provider answer
SpecRemote == InitRemote /\ [][NextRemote]_vars /\ WF_vars(ReturnCall)

SpecInterleaved == Init /\ [][NextInterleaved]_vars

(***************************************************************************)
(* Properties of the field and entry codec (SpecCodec)                     *)
(***************************************************************************)
NonEmptyString(v) == v.t = "str" /\ v.s # ""

\* the call is decryptField(encryptField(s, u1), u2) with s non-empty, u1 and u2 user ids
FieldRoundTripCall ==
    /\ call.op = "decryptField"
    /\ call.prev.op = "encryptField"
    /\ NonEmptyString(call.prev.arg)
    /\ call.prev.userUid \in UserIds
    /\ call.userUid \in UserIds

\* the call is decryptJournalEntry(encryptJournalEntry(e, u1).encryptedEntry, u2)
EntryRoundTripCall ==
    /\ call.op = "decryptJournalEntry"
    /\ call.prev.op = "encryptJournalEntry"
    /\ call.prev.userUid \in UserIds
    /\ call.userUid \in UserIds

\* C1: for every non-empty string s and every non-empty user id u,
\* decryptField(encryptField(s, u), u) returns exactly s.
C1_FieldRoundTrip ==
    (FieldRoundTripCall /\ call.userUid = call.prev.userUid)
        => call.out = call.prev.arg

C1_Witness ==
    /\ FieldRoundTripCall
    /\ call.userUid = call.prev.userUid
    /\ call.prev.arg = Str("Hi")
    /\ call.arg.t = "enc"
    /\ call.out = Str("Hi")

\* C2: for every non-empty string s and user ids u1 # u2, decrypting with u2 a
\* field, or an entry's title or content, that was encrypted with u1 returns the
\* '[Decryption Failed]' sentinel (and so never s).
C2_WrongKeyGivesSentinel ==
    /\ (FieldRoundTripCall /\ call.userUid # call.prev.userUid)
          => call.out = Str(DecryptionFailed)
    /\ (EntryRoundTripCall /\ call.userUid # call.prev.userUid)
          => \A f \in {"title", "content"} :
                NonEmptyString(call.prev.arg[f])
                    => call.out.decryptedEntry[f] = Str(DecryptionFailed)

\* C3: for every entry e and user id u,
\* decryptJournalEntry(encryptJournalEntry(e, u).encryptedEntry, u) succeeds and
\* its decryptedEntry equals e: title and content restored (absent and empty ones
\* too), every other field as it was in e.
C3_EntryRoundTrip ==
    (EntryRoundTripCall /\ call.userUid = call.prev.userUid)
        => /\ call.out.success
           /\ call.out.decryptedEntry = call.prev.arg

C3_Witness ==
    /\ EntryRoundTripCall
    /\ call.userUid = call.prev.userUid
    /\ call.prev.arg.title = Str("")
    /\ call.prev.arg.content = Str("Yo")
    /\ call.arg.content.t = "enc"
    /\ call.arg._hasEncryptedFields = True
    /\ call.out.decryptedEntry = call.prev.arg

\* the entry has a title or a content that is encrypted under a key
NeedsKey(entry) ==
    /\ ~IsNull(entry)
    /\ ~Falsy(entry._hasEncryptedFields)
    /\ (entry.title.t = "enc" \/ entry.content.t = "enc")

\* C6: an encrypt or decrypt operation called with an absent or empty user id on
\* data that needs a key ends in a failure outcome (a throw, success false, or
\* for decryptField the sentinel), never in a success.
C6_AbsentUidIsFatal ==
    (call.op # "none" /\ FalsyUid(call.userUid)) =>
        /\ (call.op = "encryptField" /\ NonEmptyString(call.arg))
              => call.out.threw
        /\ (call.op = "decryptField" /\ call.arg.t = "enc")
              => call.out = Str(DecryptionFailed)
        /\ (call.op = "encryptJournalEntry" /\ ~IsNull(call.arg)
                /\ (NonEmptyString(call.arg.title) \/ NonEmptyString(call.arg.content)))
              => ~call.out.success
        /\ (call.op = "decryptJournalEntry" /\ NeedsKey(call.arg))
              => ~call.out.success

\* C7: encryptJournalEntry returns, for every entry and user id, a result with
\* success true and the encrypted entry, or success false and an error; on
\* success the marker and the field list are set, no field other than title and
\* content differs from the input, and the input entry is as it was.
C7_EncryptEntryResult ==
    call.op = "encryptJournalEntry" =>
        /\ call.argAfter = call.arg
        /\ IF call.out.success
           THEN LET e == call.out.encryptedEntry IN
                /\ DOMAIN e = DOMAIN call.arg
                /\ e._hasEncryptedFields = True
                /\ e._encryptedFields = EncryptedFieldNames
                /\ \A f \in DOMAIN e \ {"title", "content", "_hasEncryptedFields",
                                        "_encryptedFields"} : e[f] = call.arg[f]
                /\ \A f \in {"title", "content"} :
                      e[f] = call.arg[f] \/ (e[f].t = "enc" /\ NonEmptyString(call.arg[f]))
           ELSE /\ "error" \in DOMAIN call.out
                /\ "encryptedEntry" \notin DOMAIN call.out

C7_Witness ==
    /\ call.op = "encryptJournalEntry"
    /\ call.out.success
    /\ call.arg.title = Str("Hi")
    /\ call.arg.mood = Str("happy")
    /\ call.out.encryptedEntry.title.t = "enc"
    /\ call.out.encryptedEntry.mood = Str("happy")

\* C8: for every entry that carries the marker, the entry decryptJournalEntry
\* returns has neither the marker nor the field list, its title and content are
\* not of the tagged shape (an encrypted one has become its plaintext or the
\* sentinel), and all its other fields equal the input's.
C8_DecryptedEntryShape ==
    (call.op = "decryptJournalEntry" /\ ~IsNull(call.arg)
        /\ call.arg._hasEncryptedFields = True) =>
        LET d == call.out.decryptedEntry IN
        /\ d._hasEncryptedFields = Undef
        /\ d._encryptedFields = Undef
        /\ \A f \in {"title", "content"} :
              /\ d[f].t # "enc"
              /\ call.arg[f].t = "enc"
                    => d[f] \in {Str(call.arg[f]._value.pt), Str(DecryptionFailed)}
              /\ call.arg[f].t # "enc" => d[f] = call.arg[f]
        /\ \A f \in DOMAIN d \ {"title", "content", "_hasEncryptedFields",
                                "_encryptedFields"} : d[f] = call.arg[f]

\* the field names the _encryptedFields list of a stored entry holds
ListedFields(e) == {e._encryptedFields.l[i] : i \in 1..Len(e._encryptedFields.l)}

\* C21: in the entry encryptJournalEntry produces for storage, every field
\* named in _encryptedFields holds the tagged shape {_encrypted, _value} and
\* every field holding the tagged shape is named in _encryptedFields, also when
\* the title or the content of the input is absent or empty.
C21_ListedIffTagged ==
    (call.op = "encryptJournalEntry" /\ call.out.success) =>
        LET e == call.out.encryptedEntry IN
        \A f \in DOMAIN e : (f \in ListedFields(e)) <=> (e[f].t = "enc")

(***************************************************************************)
(* Properties of batch decryption (SpecStore)                              *)
(***************************************************************************)
\* the last operation ran decryptJournalEntries on reply.batch
BatchDecrypted ==
    /\ reply.op \in {"getUserEntries", "decryptJournalEntries"}
    /\ reply.decrypted

\* no key derived from userUid decrypts the field
CannotDecrypt(field, userUid) ==
    /\ field.t = "enc"
    /\ (FalsyUid(userUid) \/ field._value.key # generateKey(userUid).val)

C5_FailuresAreRecorded ==
    (BatchDecrypted /\ reply.userId \in UserIds /\ ~reply.decryptionResult.threw) =>
        \A i \in 1..Len(reply.batch) :
            (/\ reply.batch[i]._hasEncryptedFields = True
             /\ \/ CannotDecrypt(reply.batch[i].title, reply.userId)
                \/ CannotDecrypt(reply.batch[i].content, reply.userId))
            => /\ ~reply.decryptionResult.val.success
               /\ \E j \in 1..Len(reply.decryptionResult.val.errors) :
                     /\ reply.decryptionResult.val.errors[j].index = i - 1
                     /\ reply.decryptionResult.val.errors[j].entryId = reply.batch[i].id

(***************************************************************************)
(* Properties of the cache (SpecCache)                                     *)
(***************************************************************************)
\* C9: Cache.get(key) returns the stored value only if an item for key exists
\* and now - storedAt < ttl for it; in every other case it returns null.
\* (Stated for the items set with a ttl above 0; C10 is about a ttl of 0.)
C9_ReadableOnlyWithinTtl ==
    (got.op = "get" /\ (got.item # Undef => got.item.ttl > 0)) =>
        got.ret = IF got.item # Undef /\ got.at - got.item.storedAt < got.item.ttl
                  THEN got.item.value
                  ELSE Null

\* C10: after Cache.set(key, value, 0), a Cache.get(key) made at the same or
\* any later clock value returns null.
C10_ZeroTtlUnreadable ==
    (got.op = "get" /\ got.item # Undef /\ got.item.ttl = 0) => got.ret = Null

(***************************************************************************)
(* Properties of invalidation (SpecCaches, SpecCache)                      *)
(***************************************************************************)
\* what clearByPrefix(prefix) is to make of the items before it
ClearedByPrefix(before, after, prefix) ==
    /\ DOMAIN after \subseteq DOMAIN before
    /\ \A key \in DOMAIN before :
          IF startsWith(key, prefix)
          THEN key \notin DOMAIN after
          ELSE /\ key \in DOMAIN after
               /\ after[key].value = before[key].value
               /\ after[key].expiry = before[key].expiry

\* C11: Cache.clearByPrefix(p) removes every record whose key starts with p and
\* leaves every record whose key does not start with p unchanged (same value,
\* same expiry); invalidateCache(p) does so on each of the short, medium and
\* long caches.
C11_PrefixRemovedRestKept ==
    [][/\ got'.op = "clearByPrefix" => ClearedByPrefix(cache, cache', got'.key)
       /\ got'.op = "invalidateCache" =>
              /\ ClearedByPrefix(cache, cache', got'.key)
              /\ ClearedByPrefix(mediumCache, mediumCache', got'.key)
              /\ ClearedByPrefix(longCache, longCache', got'.key)]_vars

\* invalidateCache("u1") has removed u1's records and kept u2's in each instance
C11_Witness ==
    /\ got.op = "invalidateCache"
    /\ got.key = <<"u1">>
    /\ DOMAIN cache = {<<"u2", "mood">>}
    /\ DOMAIN mediumCache = {<<"u2", "mood">>}
    /\ DOMAIN longCache = {<<"u2", "mood">>}
    /\ mediumCache[<<"u2", "mood">>].expiry = 1

\* C12: for every reachable cache state and every prefix p, running
\* clearByPrefix(p) twice in a row leaves the cache in the same state as
\* running it once.
C12_ClearByPrefixIdempotent ==
    [][(got.op = "clearByPrefix" /\ got'.op = "clearByPrefix" /\ got'.key = got.key)
          => cache' = cache]_vars

\* a second clearByPrefix("u1") after one that removed u1's record
C12_Witness ==
    /\ got.op = "clearByPrefix"
    /\ got.again
    /\ got.key = <<"u1">>
    /\ got.removed = {<<"u1", "mood">>}
    /\ DOMAIN cache = {<<"u2", "mood">>}

(***************************************************************************)
(* Properties of withCache (SpecWithCache)                                 *)
(***************************************************************************)
\* C13: withCache(fn, key, cache, forceRefresh): with forceRefresh false and an
\* unexpired record for key, it returns the cached value and fn is not
\* executed; with forceRefresh true it always executes fn; whenever fn is
\* executed and succeeds the cache record for key is overwritten with fn's
\* result, and when fn fails the cache is left unchanged.
\* (A record counts as unexpired as Cache.get counts it: now <= expiry.)
C13_WithCacheContract ==
    [][got'.op = "withCache" /\ got' # got =>
          LET key == got'.key
          IN  /\ (/\ ~got'.forceRefresh
                  /\ key \in DOMAIN cache
                  /\ ~expired(cache[key], now))
                     => got'.ret = Ret(cache[key].value) /\ ~got'.ran
              /\ got'.forceRefresh => got'.ran
              /\ (got'.ran /\ ~got'.ret.threw)
                     => /\ key \in DOMAIN cache'
                        /\ cache'[key].value = got'.ret.val
                        /\ cache'[key].storedAt = now
              /\ (got'.ran /\ got'.ret.threw) => cache' = cache]_vars

(***************************************************************************)
(* Properties of the analytics record under writes (SpecStale)             *)
(***************************************************************************)
\* C14: after any successful createEntry, updateEntry or deleteEntry for user
\* u, every cached analytics record scoped to u has been invalidated, so no
\* later cache read for u returns analytics computed from the entries as they
\* were before the mutation.
C14_WritesInvalidateAnalytics ==
    /\ (/\ reply.op \in {"baseCreateEntry", "updateEntry", "deleteEntry"}
        /\ reply.out.val.success)
           => analyticsKey(reply.userId) \notin DOMAIN localStorage
    /\ (/\ reply.op = "getCachedAnalytics"
        /\ reply.out.val.success
        /\ "fromCache" \in DOMAIN reply.out.val)
           => reply.out.val.insights.computedFrom = entriesOf(db, reply.userId)

(***************************************************************************)
(* Properties of the analytics capabilities (SpecCapabilities)             *)
(***************************************************************************)
\* the six capabilities named by the specification, by the method that gives each
Capabilities ==
    {"analyzeMood", "analyzeEmotionDistribution", "generateWordCloud",
     "generateSentimentOverTime", "analyzeWritingPatterns", "generateMoodCorrelations"}

\* the keys a capability's result is to have; a sequence result has none
SchemaOf(op) ==
    CASE op = "analyzeMood" ->
            {"success", "mood", "confidence", "emotions", "sentiment", "keywords",
             "reasoning"}
      [] op = "analyzeEmotionDistribution" -> {"success", "distribution"}
      [] op = "generateWordCloud" -> {"success", "words"}
      [] op = "analyzeWritingPatterns" ->
            {"writingTimes", "entryLengths", "weeklyPattern", "stats"}
      [] op = "generateMoodCorrelations" ->
            {"moodTagCorrelations", "moodLengthCorrelations", "timeOfDayMoods",
             "transitions", "mostCommonTransition"}
      [] OTHER -> {}

\* the keys whose value is read from the answer of the AI model
MayBeUndefined ==
    {"mood", "confidence", "emotions", "sentiment", "reasoning", "distribution", "words"}

\* the call found no remote tier that answered: no API key or a failed AI
\* request, and a secondary backend that is not available
RemotesDown == (~reply.ai \/ reply.tried = <<"ai", "heuristic">>) /\ ~reply.python

\* C15: with the remote AI model and the secondary backend both unreachable or
\* failing, every capability of the analytics service (mood, emotion
\* distribution, word cloud, sentiment-over-time, writing patterns, mood
\* correlations) still returns a non-null, schema-complete result from local
\* heuristics, for every well-formed input; no capability throws or rejects.
C15_HeuristicsAlwaysAnswer ==
    (reply.op \in Capabilities /\ reply.arg # Undef /\ RemotesDown) =>
        /\ ~reply.out.threw
        /\ reply.out.val \notin {Null, Undef}
        /\ \A k \in SchemaOf(reply.op) : k \in DOMAIN reply.out.val
        /\ \A k \in SchemaOf(reply.op) \cap MayBeUndefined : reply.out.val[k] # Undef

\* the tiers a capability is to go through, in order, given which are available
TierChain(ai, python) ==
    (IF ai THEN <<"ai">> ELSE <<>>) \o (IF python THEN <<"secondary">> ELSE <<>>)
        \o <<"heuristic">>

\* C16: for each capability the providers are tried in the fixed order remote
\* AI, then secondary (Python) backend, then local heuristic: the AI tier is
\* attempted first whenever its availability flag is set and its result ends
\* the chain; when the AI tier fails, the secondary backend is attempted if it
\* is available; the local heuristic runs only after every available remote
\* tier has failed.
C16_TiersInOrder ==
    (/\ reply.op \in {"analyzeMood", "analyzeEmotionDistribution", "generateWordCloud"}
     /\ reply.tried # NoTier)
        => startsWith(TierChain(reply.ai, reply.python), reply.tried)

(***************************************************************************)
(* Properties of the insights bundle (SpecInsights)                        *)
(***************************************************************************)
InsightKeys ==
    {"emotionDistribution", "sentimentAnalysis", "emotionsOverTime", "wordCloud",
     "writingPatterns", "moodCorrelations"}

\* C17: for every entry list and every outcome of the remote providers
\* (failure, or a parseable response of any shape), the insights object
\* returned by generateComprehensiveInsights has all six keys and none of
\* them is undefined.
C17_BundleComplete ==
    reply.op = "generateComprehensiveInsights" =>
        \A k \in InsightKeys :
            /\ k \in DOMAIN reply.out.val.insights
            /\ reply.out.val.insights[k] # Undef

\* an insights object every part of which is empty
EmptyBundle(insights) ==
    /\ DOMAIN insights = InsightKeys
    /\ \A k \in {"emotionDistribution", "sentimentAnalysis", "emotionsOverTime",
                  "wordCloud"} : insights[k] = List(<<>>)
    /\ \A k \in DOMAIN insights.writingPatterns : insights.writingPatterns[k] = 0
    /\ insights.moodCorrelations.moodTagCorrelations = NoItems
    /\ insights.moodCorrelations.moodLengthCorrelations = List(<<>>)
    /\ \A time \in DOMAIN insights.moodCorrelations.timeOfDayMoods :
          insights.moodCorrelations.timeOfDayMoods[time] = NoItems
    /\ insights.moodCorrelations.transitions = <<>>
    /\ insights.moodCorrelations.mostCommonTransition = Null

C19_EnvelopeNamesSource ==
    reply.op = "generateComprehensiveInsights" =>
        /\ "source" \in DOMAIN reply.out.val
        /\ reply.out.val.source \in {"ai", "secondary", "heuristic"}
        /\ reply.tried # NoTier => reply.out.val.source = reply.tried[Len(reply.tried)]
        /\ ~reply.out.val.success => ~WellFormed(reply.arg) \/ ~Readable(reply.arg)

\* C27: in generateComprehensiveInsights the six capability computations are
\* failure-isolated: when one capability throws, the results of the
\* capabilities that did not are still returned in the insights bundle and are
\* not replaced by the empty defaults.
C27_FailureIsolated ==
    (/\ reply.op = "generateComprehensiveInsights"
     /\ ~NoEntries(reply.arg)
     /\ WellFormed(reply.arg)
     /\ Throwing(reply.arg) # {}) =>
        LET insights == reply.out.val.insights
            alone == [emotionDistribution |->
                          analyzeEmotionDistributionSimple(reply.arg.l).distribution,
                      sentimentAnalysis |-> generateSentimentOverTime(reply.arg),
                      emotionsOverTime |-> generateEmotionsOverTime(reply.arg),
                      moodCorrelations |-> generateMoodCorrelations(reply.arg.l)]
        IN  \A capability \in DOMAIN alone \ Throwing(reply.arg) :
                insights[capability] = alone[capability]

(***************************************************************************)
(* Properties of the bundle cache (SpecInsightCache)                       *)
(***************************************************************************)
\* C20: after generateComprehensiveInsights(u, entries) succeeds, the bundle it
\* returned is stored under the key scoped to user u, getCachedInsights(u)
\* returns that bundle while now - timestamp < 30 minutes and null afterwards,
\* and the cached record of every other user is unchanged.
\* (Stated for the calls during which localStorage accepts what is written.)
C20_BundleCachedForUser ==
    [][/\ (/\ reply'.op = "generateComprehensiveInsights"
           /\ reply' # reply
           /\ reply'.stored
           /\ reply'.out.val.success)
              => /\ analyticsKey(reply'.userId) \in DOMAIN localStorage'
                 /\ localStorage'[analyticsKey(reply'.userId)] =
                        [data |-> reply'.out.val.insights, timestamp |-> now]
                 /\ \A k \in DOMAIN localStorage \ {analyticsKey(reply'.userId)} :
                        k \in DOMAIN localStorage' /\ localStorage'[k] = localStorage[k]
       /\ (/\ reply'.op = "getCachedInsights"
           /\ reply'.cached # Null)
              => reply'.out.val =
                    IF reply'.at - reply'.cached.timestamp < 30 * 60 * 1000
                    THEN reply'.cached.data
                    ELSE Null]_vars

\* the last request tried the AI model and had to fall back on the heuristic
FoundAIUnreachable == reply.op # "none" /\ reply.tried = <<"ai", "heuristic">>

\* C26: within one session, once a remote provider has been found
\* unreachable, its availability flag stays false and later requests of the
\* session do not attempt that provider again.
C26_UnreachableProviderNotRetried ==
    [][FoundAIUnreachable =>
          /\ ~isAIAvailable
          /\ ~isAIAvailable'
          /\ reply' # reply => \A i \in 1..Len(reply'.tried) : reply'.tried[i] # "ai"]_vars

(***************************************************************************)
(* Properties of the calls under way (SpecRemote)                          *)
(***************************************************************************)
\* C28: every remote attempt is bounded by a timeout: also when the provider
\* never answers, the attempt eventually ends (as a failure, with the next
\* tier tried), so the health probe, each capability call and
\* generateComprehensiveInsights eventually return.
C28_RemoteAttemptsEnd ==
    /\ CallPending ~> ~CallPending
    /\ ProbePending ~> ~ProbePending

(***************************************************************************)
(* Properties of the heuristics (SpecHeuristics)                           *)
(***************************************************************************)
EmotionDistributions ==
    {"analyzeEmotionDistribution", "fallbackEmotionDistribution",
     "generateSimpleEmotionDistribution"}

\* the distribution array of the reply of one of the three heuristics
DistributionReturned ==
    IF reply.op = "generateSimpleEmotionDistribution"
    THEN reply.out.val.l
    ELSE reply.out.val.distribution.l

\* the mood labels of the entries the reply was computed from
LabelsAsked == {reply.arg.l[i].mood : i \in 1..Len(reply.arg.l)} \ {""}

\* the number of those entries whose mood label is mood
EntriesWithMood(mood) ==
    Cardinality({i \in 1..Len(reply.arg.l) : reply.arg.l[i].mood = mood})

TotalWithMood ==
    Cardinality({i \in 1..Len(reply.arg.l) : reply.arg.l[i].mood # ""})

\* C22: the heuristic emotion distribution has one record per mood label of the
\* entries, with the percentage round(count / totalWithMood * 100); entries
\* without a mood label are counted in neither count nor totalWithMood and are
\* reported as no mood, 'neutral' included (happy, sad, happy gives happy 67
\* and sad 33).
C22_DistributionOverLabelledEntries ==
    reply.op \in EmotionDistributions =>
        LET d == DistributionReturned IN
        /\ {d[i].name : i \in 1..Len(d)} = {Capitalised(mood) : mood \in LabelsAsked}
        /\ Len(d) = Cardinality(LabelsAsked)
        /\ \A i \in 1..Len(d) : \A mood \in LabelsAsked :
              d[i].name = Capitalised(mood) =>
                  /\ d[i].count = EntriesWithMood(mood)
                  /\ d[i].value = RoundPct(EntriesWithMood(mood), TotalWithMood)

RECURSIVE SumOfValues(_)
SumOfValues(d) ==
    IF d = <<>> THEN 0 ELSE SumOfValues(SubSeq(d, 1, Len(d) - 1)) + d[Len(d)].value

\* the reply is the heuristic distribution of a non-empty entry list in which
\* every entry has a mood
DistributionOfLabelledEntries ==
    /\ reply.op = "analyzeEmotionDistribution"
    /\ reply.tried = <<"heuristic">>
    /\ \A i \in 1..Len(reply.arg.l) : reply.arg.l[i].mood # ""

\* C23: for every non-empty entry list in which every entry has a mood, the
\* percentages of the heuristic emotion distribution sum to 100 up to
\* rounding: the sum differs from 100 by less than the number of distinct moods.
C23_PercentagesSumTo100 ==
    DistributionOfLabelledEntries =>
        LET sum == SumOfValues(reply.out.val.distribution.l)
            distinct == Cardinality(LabelsAsked)
        IN  sum - 100 < distinct /\ 100 - sum < distinct

\* three entries of three moods: 33 + 33 + 33
C23_Witness ==
    /\ DistributionOfLabelledEntries
    /\ Cardinality(LabelsAsked) = 3
    /\ SumOfValues(reply.out.val.distribution.l) = 99

\* the mood lookup table, in hundredths: happy 1, grateful 0.7, calm 0.3,
\* neutral 0, anxious -0.3, sad -0.7, angry -0.9
TableScore(mood) ==
    CASE mood = "happy" -> 100
      [] mood = "grateful" -> 70
      [] mood = "calm" -> 30
      [] mood = "anxious" -> 0 - 30
      [] mood = "sad" -> 0 - 70
      [] mood = "angry" -> 0 - 90
      [] OTHER -> 0

\* the sum of the table scores of the entries of es written on date
RECURSIVE SumOfScores(_, _)
SumOfScores(es, date) ==
    IF es = <<>> THEN 0
    ELSE SumOfScores(SubSeq(es, 1, Len(es) - 1), date)
            + (IF es[Len(es)].createdAt.day = date THEN TableScore(es[Len(es)].mood) ELSE 0)

\* the records have one record per date of the entries, in ascending order
OnePerDateAscending(records, es) ==
    /\ {records[i].date : i \in 1..Len(records)}
          = {es[i].createdAt.day : i \in 1..Len(es)}
    /\ \A i, j \in 1..Len(records) : i < j => records[i].date < records[j].date

\* C24: the heuristic sentiment-over-time result has exactly one record per
\* distinct calendar date of the entries, in ascending date order, and each
\* date's score is the arithmetic mean (to two decimals) of the per-entry
\* scores of the mood lookup table; happy and sad on one date give 0.15.
C24_ScoreIsMeanOfTable ==
    (reply.op = "generateSentimentOverTime" /\ reply.arg # Undef) =>
        LET records == reply.out.val.l
            es == reply.arg.l
        IN  /\ OnePerDateAscending(records, es)
            /\ \A i \in 1..Len(records) :
                  LET n == Cardinality({k \in 1..Len(es) :
                                          es[k].createdAt.day = records[i].date})
                      off == records[i].score * n - SumOfScores(es, records[i].date)
                  IN  2 * off <= n /\ 0 - 2 * off <= n

\* entry.createdAt.toDate() as a number of hours
Timestamp(entry) == entry.createdAt.day * 24 + entry.createdAt.hour

\* the pair of mood labels at places i and i + 1 of the entries es taken in the order p
PairAt(es, p, i) == <<moodOrNeutral(es[p[i]]), moodOrNeutral(es[p[i + 1]])>>

\* p arranges the entries es in ascending order of timestamp
Ascending(es, p) ==
    \A i, j \in 1..Len(es) : i < j => Timestamp(es[p[i]]) <= Timestamp(es[p[j]])

RECURSIVE SumOfCounts(_)
SumOfCounts(t) ==
    IF t = <<>> THEN 0 ELSE SumOfCounts(SubSeq(t, 1, Len(t) - 1)) + t[Len(t)].count

\* t counts one transition per consecutive pair of es in the order p, and
\* most is a pair of the highest count, the first seen of those tied on it
CountsTransitions(es, p, t, most) ==
    LET places == 1..(Len(es) - 1)
        seen(key) == {i \in places : PairAt(es, p, i) = key}
        first(key) == CHOOSE i \in seen(key) : \A k \in seen(key) : i <= k
    IN  /\ {t[i].key : i \in 1..Len(t)} = {PairAt(es, p, i) : i \in places}
        /\ \A i, j \in 1..Len(t) : t[i].key = t[j].key => i = j
        /\ \A i \in 1..Len(t) : t[i].count = Cardinality(seen(t[i].key))
        /\ IF places = {} THEN most = Null
           ELSE /\ most.t = "list"
                /\ most.l[2] = Cardinality(seen(most.l[1]))
                /\ \A i \in 1..Len(t) :
                      \/ t[i].count < most.l[2]
                      \/ t[i].count = most.l[2] /\ first(most.l[1]) <= first(t[i].key)

Resumes(i) == calls[i].pc = "computed" /\ calls'[i].pc = "done"

\* the call of caller i missed while another call for its key was suspended,
\* and its fn resolved
RacedAndResolved(call_) == call_.ran /\ call_.raced /\ ~call_.result.threw

\* the record that the finished call call_ wrote
RecordOf(call_) == newItem(call_.result.val, Undef, call_.at)

\* C29: when two withCache calls for the same key interleave so that both miss
\* before either writes, fn runs twice and nothing else differs: each call
\* returns the result of its own fn, and once both have completed the record
\* for the key is, whole, the record one of the two calls wrote (its value with
\* its expiry), and no other key of the cache has changed.
C29_RaceOnlyRecomputes ==
    [][\A i \in Callers, j \in Callers :
          (/\ i # j
           /\ Resumes(i)
           /\ calls[j].pc = "done"
           /\ calls[j].key = calls[i].key
           /\ RacedAndResolved(calls[i])
           /\ RacedAndResolved(calls[j]))
          => /\ calls'[i].ret = calls[i].result
             /\ calls'[j].ret = calls[j].result
             /\ DOMAIN cache' = DOMAIN cache \cup {calls[i].key}
             /\ \A key \in DOMAIN cache \ {calls[i].key} : cache'[key] = cache[key]
             /\ cache'[calls[i].key] \in {RecordOf(calls'[i]), RecordOf(calls'[j])}]_vars

\* both calls missed while the other was suspended, their fns resolved with
\* different values at different times, and both have completed
C29_Witness ==
    /\ \A i \in Callers : calls[i].pc = "done" /\ RacedAndResolved(calls[i])
    /\ calls[1].key = calls[2].key
    /\ calls[1].ret.val # calls[2].ret.val
    /\ calls[1].at # calls[2].at
    /\ calls[1].key \in DOMAIN cache
    /\ cache[calls[1].key] \in {RecordOf(calls[1]), RecordOf(calls[2])}

\* C30: if clearByPrefix(p) runs while a withCache call for a key that starts
\* with p is suspended in fn and fn already has its value, then when the call
\* completes the cache holds no record for the key with that value.
C30_ClearedValueNotCached ==
    [][\A i \in Callers :
          (Resumes(i) /\ calls[i].cleared /\ ~calls[i].result.threw)
          => ~(/\ calls[i].key \in DOMAIN cache'
               /\ cache'[calls[i].key].value = calls[i].result.val)]_vars

=============================================================================
